---- MODULE Spec2Model ----
(***************************************************************************)
(* Subscription watcher of the Dash bridge (src/src/api/dapi.ts, the       *)
(* BridgeDAPIClient with waitForInstantSendLock and waitForDeposit).       *)
(*                                                                         *)
(* One call of waitForInstantSendLock / waitForDeposit is a session: the   *)
(* closure variables of the promise executor (stream, timeoutId,           *)
(* resolved), the position of the async task (pc), the promise's outcome   *)
(* and what the collaborators (DAPI stream, timer, callbacks) have done.   *)
(* Every handler of the code is one action; the collaborators' outcomes    *)
(* are the nondeterministic inputs.                                        *)
(*                                                                         *)
(* The BridgeDAPIClient's cached client and the clients the calls          *)
(* construct are numbered in the order of their construction.              *)
(*                                                                         *)
(* withRetry (src/unnamed/part_000) is modelled as one invocation: its     *)
(* policy, loop variable, lastError, result, and the log of what it did.   *)
(***************************************************************************)
EXTENDS Integers, Sequences, FiniteSets, TLC

VARIABLES
    sess,        \* the calls of waitForInstantSendLock / waitForDeposit
    dapiClient,  \* BridgeDAPIClient.dapiClient: 0 is null, else a client's number
    clients,     \* the DAPI clients constructed so far, each with who made it
    closing,     \* calls of BridgeDAPIClient.disconnect() awaiting the client
    run,         \* one invocation of withRetry
    cls,         \* one evaluation of extractErrorMessage / isRetryableError
    pow,         \* one run of the proof-of-work solver
    wrap,        \* one use of createRetryWrapper / createRetryOptionsWithCallback
    cap          \* one call of solveCap

vars == <<sess, dapiClient, clients, closing, run, cls, pow, wrap, cap>>

(***************************************************************************)
(* Bounds of the model.                                                    *)
(***************************************************************************)
\* longest list of lock messages / raw transactions in one 'data' event
MaxBatch == 2
\* 'data' events (and 'error' events) a session's handlers receive
MaxEvents == 2
\* 'data' events the stream emits before the handlers are attached
MaxBuffered == 1
\* calls of BridgeDAPIClient.disconnect() in flight at once
MaxClosing == 1
\* largest maxAttempts of a retry policy
MaxAttempts == 3
\* values Math.random() takes: k / RandomSteps for k in 0 .. RandomSteps - 1
RandomSteps == 2

(***************************************************************************)
(* Inputs.                                                                 *)
(***************************************************************************)
Sessions == {"a", "b"}

TxIds == {"1", "2"}

LockTimeoutDefault == 60000
DepositTimeoutDefault == 120000
Timeouts == {LockTimeoutDefault, DepositTimeoutDefault}

\* raw InstantLock messages: 0 does not decode, 1 and 2 are two different
\* messages locking txid 1, 3 and 4 two different messages locking txid 2
LockBytes == {0, 1, 2, 3, 4}

\* what a call gives back when it throws, and JavaScript's null
Thrown == "thrown"
Null == "null"

\* InstantLock.fromBuffer(bytes).txid; Thrown when fromBuffer throws
InstantLockFromBuffer(bytes) ==
    IF bytes = 0 THEN Thrown ELSE ToString((bytes + 1) \div 2)

\* where the onProgress callback of the call throws ("never": it is absent
\* or never throws)
ProgressPoints == {"never", "start", "subscribing", "listening", "data"}

Hashes == {1, 2}
Amounts == {1, 2}

\* outputs of a raw transaction: script kind, the hash a P2PKH script pays, amount
Outputs ==
    {[p2pkh |-> FALSE, hash |-> 0, satoshis |-> 1]}
    \cup {[p2pkh |-> TRUE, hash |-> h, satoshis |-> v] : h \in Hashes, v \in Amounts}

\* output lists of a transaction: none, one output, or an output of the
\* smaller amount followed by a P2PKH output of the larger amount (to the
\* same hash when the first one is P2PKH)
OutputLists ==
    {<<>>} \cup {<<o>> : o \in Outputs}
    \cup {pair \in {<<o1, o2>> : o1 \in Outputs, o2 \in Outputs} :
            /\ pair[1].satoshis = 1
            /\ pair[2].p2pkh /\ pair[2].satoshis = 2
            /\ pair[1].p2pkh => pair[2].hash = pair[1].hash}

OutputCode(o) == IF o.p2pkh THEN 1 + 2 * (o.hash - 1) + (o.satoshis - 1) ELSE 0

RECURSIVE TxHash(_)
\* tx.hash: a function of the transaction's content, different for different content
TxHash(outs) ==
    IF outs = <<>> THEN 1 ELSE 1 + OutputCode(outs[1]) + 5 * TxHash(Tail(outs))

\* raw transactions: ok = FALSE is a byte string new Transaction(...) rejects
RawTxs == {[ok |-> FALSE, outputs |-> <<>>]}
          \cup {[ok |-> TRUE, outputs |-> outs] : outs \in OutputLists}

SeqsUpTo(S, n) == UNION {[1..k -> S] : k \in 0..n}

LockBatches == SeqsUpTo(LockBytes, MaxBatch)
TxBatches == SeqsUpTo(RawTxs, MaxBatch)

(***************************************************************************)
(* The promise of a call and what it settles with.                         *)
(***************************************************************************)
NullUtxo ==
    [isNull |-> TRUE, txid |-> 0, vout |-> 0, satoshis |-> 0,
     scriptPubKey |-> 0, confirmations |-> 0]

Pending ==
    [status |-> "pending", tag |-> "none", txid |-> "-", n |-> 0,
     utxo |-> NullUtxo, totalAmount |-> 0, timedOut |-> FALSE]

\* reject(new Error(...)) / a throw of the async function: the error's kind
\* and the txid and the number its message carries
Rejection(tag, txid, n) ==
    [Pending EXCEPT !.status = "rejected", !.tag = tag, !.txid = txid, !.n = n]

\* resolve(bytes) of waitForInstantSendLock
LockResult(bytes) ==
    [Pending EXCEPT !.status = "resolved", !.tag = "bytes", !.n = bytes]

\* resolve({ utxo, totalAmount, timedOut }) of waitForDeposit
DepositResult(utxo, total, timedOut) ==
    [Pending EXCEPT !.status = "resolved", !.tag = "deposit", !.utxo = utxo,
                    !.totalAmount = total, !.timedOut = timedOut]

\* resolve / reject of `new Promise((resolve, reject) => ...)`: the first call
\* settles the promise, later calls are ignored by the promise
Settle(s, o) ==
    [s EXCEPT !.settleCalls = @ + 1,
              !.errorsAtSettle = IF s.outcome.status = "pending" THEN s.errors ELSE @,
              !.outcome = IF @.status = "pending" THEN o ELSE @]

\* an exception leaving the async function before the promise is created
Throw(s, o) == [s EXCEPT !.outcome = o, !.pc = "exited"]

(***************************************************************************)
(* A session.                                                              *)
(***************************************************************************)
LockConfigs ==
    [kind : {"lock"}, txid : TxIds, timeoutMs : Timeouts,
     hasOnReady : BOOLEAN, failAt : ProgressPoints,
     pubKeyHash : {1}, minAmount : {1}]

DepositConfigs ==
    [kind : {"deposit"}, txid : {"-"}, timeoutMs : {DepositTimeoutDefault},
     hasOnReady : {FALSE}, failAt : ProgressPoints,
     pubKeyHash : Hashes, minAmount : Amounts]

NoCall ==
    [kind |-> "none", txid |-> "-", timeoutMs |-> 0, hasOnReady |-> FALSE,
     failAt |-> "never", pubKeyHash |-> 0, minAmount |-> 0]

NewSession(cfg) ==
    [cfg |-> cfg,
     pc |-> "idle",
     client |-> 0,              \* the DAPI client of the call, 0 before it has one
     stream |-> FALSE,          \* closure variable stream is non-null
     timeoutId |-> FALSE,       \* closure variable timeoutId is non-null
     resolved |-> FALSE,
     timerPending |-> FALSE,    \* the runtime still holds the armed timer
     streamState |-> "none",    \* the collaborator's stream: none, open, cancelled
     ended |-> FALSE,           \* the stream has emitted 'end'
     handlers |-> FALSE,        \* stream.on('data' / 'error' / 'end') done
     onReadyState |-> "idle",   \* idle, running, done, failed
     onReadyCalls |-> 0,
     outcome |-> Pending,
     settleCalls |-> 0,
     cancelCalls |-> 0,         \* calls of stream.cancel()
     clearCalls |-> 0,          \* calls of clearTimeout(timeoutId)
     disconnectCalls |-> 0,     \* calls of client.disconnect() (deposit)
     handled |-> 0,             \* invocations of the 'data' handler
     emittedEarly |-> 0,        \* 'data' events emitted before stream.on
     errors |-> 0,              \* invocations of the 'error' handler
     errorsAtSettle |-> 0,      \* 'error' events handled before the promise settled
     swallowed |-> 0,           \* exceptions caught inside the 'data' handler
     sawBad |-> FALSE,          \* the handler examined an undecodable message
     sawOther |-> FALSE,        \* the handler examined a lock of another txid
     sawSmall |-> FALSE,        \* the handler reported an output below minAmount
     firedAt |-> "none"]        \* pc at the moment the timer fired

(***************************************************************************)
(* The DAPI clients.                                                       *)
(***************************************************************************)
\* getClient(): the cached client, constructed on first use
getClient(cached, made) ==
    IF cached = 0
    THEN [client |-> Len(made) + 1, dapiClient |-> Len(made) + 1,
          clients |-> Append(made, "getClient")]
    ELSE [client |-> cached, dapiClient |-> cached, clients |-> made]

\* waitForDeposit taking its client from getClient()
depositClientShared(s, cached, made) == getClient(cached, made)

\* const client = new DAPIClientClass({...}) of waitForDeposit
depositClient(s, cached, made) ==
    [client |-> Len(made) + 1, dapiClient |-> cached, clients |-> Append(made, s)]

(***************************************************************************)
(* cleanup, the timer callback and the stream handlers of                  *)
(* waitForInstantSendLock.                                                 *)
(***************************************************************************)
\* cleanup that cancels the stream but keeps the handle
cleanupKeepsHandle(s) ==
    LET s1 == IF s.timeoutId
              THEN [s EXCEPT !.timeoutId = FALSE, !.timerPending = FALSE,
                             !.clearCalls = @ + 1]
              ELSE s
    IN  IF s1.stream
        THEN [s1 EXCEPT !.streamState = "cancelled", !.cancelCalls = @ + 1]
        ELSE s1

cleanup(s) ==
    LET s1 == IF s.timeoutId
              THEN [s EXCEPT !.timeoutId = FALSE, !.timerPending = FALSE,
                             !.clearCalls = @ + 1]
              ELSE s
    IN  IF s1.stream
        THEN [s1 EXCEPT !.stream = FALSE, !.streamState = "cancelled",
                        !.cancelCalls = @ + 1]
        ELSE s1

\* if (!resolved) { resolved = true; cleanup(); reject(error); }
lockFail(s, err) ==
    IF ~s.resolved
    THEN Settle(cleanup([s EXCEPT !.resolved = TRUE]), err)
    ELSE s

\* a timeout error that reports the default duration
lockTimeoutDefaultMs(s) ==
    lockFail(s, Rejection("timeout", s.cfg.txid, LockTimeoutDefault))

lockTimeout(s) ==
    lockFail(s, Rejection("timeout", s.cfg.txid, s.cfg.timeoutMs))

\* parseInstantLockTxid without its try/catch
parseInstantLockTxidNoCatch(bytes) == InstantLockFromBuffer(bytes)

\* try { return InstantLock.fromBuffer(...).txid } catch { return null }
parseInstantLockTxid(bytes) ==
    IF InstantLockFromBuffer(bytes) = Thrown THEN Null
    ELSE InstantLockFromBuffer(bytes)

RECURSIVE lockScan(_, _, _)
\* for (const msgBytes of messages) { ... } from message i on; an exception
\* in the loop ends the handler in its catch clause
lockScan(s, messages, i) ==
    IF i > Len(messages) THEN s
    ELSE LET islockTxid == parseInstantLockTxid(messages[i])
             seen == [s EXCEPT !.sawBad = @ \/ (islockTxid = Null),
                               !.sawOther = @ \/ (islockTxid \notin {Null, Thrown, s.cfg.txid})]
         IN  IF islockTxid = Thrown
             THEN [s EXCEPT !.swallowed = @ + 1]
             ELSE IF islockTxid = s.cfg.txid
             THEN IF s.cfg.failAt = "data"
                  THEN [s EXCEPT !.swallowed = @ + 1]
                  ELSE Settle(cleanup([s EXCEPT !.resolved = TRUE]),
                              LockResult(messages[i]))
             ELSE lockScan(seen, messages, i + 1)

\* a 'data' handler that takes the first lock that decodes, whatever its txid
lockOnDataAnyLock(s, messages) ==
    LET ok == {i \in 1..Len(messages) : parseInstantLockTxid(messages[i]) # Null}
        first == CHOOSE i \in ok : \A j \in ok : i <= j
    IN  IF s.resolved \/ ok = {} THEN s
        ELSE Settle(cleanup([s EXCEPT !.resolved = TRUE]), LockResult(messages[first]))

lockOnData(s, messages) ==
    IF s.resolved THEN s ELSE lockScan(s, messages, 1)

\* an 'error' handler that ends the wait
lockOnErrorFatal(s) == lockFail(s, Rejection("streamError", s.cfg.txid, 0))

lockOnError(s) == s

\* an 'end' handler that only logs
lockOnEndIgnored(s) == s

\* an 'end' handler without the resolved guard
lockOnEndUnguarded(s) ==
    Settle(cleanup([s EXCEPT !.resolved = TRUE]),
           Rejection("streamEnded", s.cfg.txid, 0))

lockOnEnd(s) == lockFail(s, Rejection("streamEnded", s.cfg.txid, 0))

\* the statements after `stream = await subscribe(...)` up to the next
\* suspension: onProgress, then either the call of onReady or stream.on(...)
lockAttach(s) ==
    IF s.stream
    THEN [s EXCEPT !.handlers = TRUE, !.pc = "listening"]
    ELSE [lockFail(s, Rejection("typeError", "-", 0)) EXCEPT !.pc = "exited"]

\* the handlers attached before onReady is awaited
lockSubscribedAttachFirst(s) ==
    LET s1 == [s EXCEPT !.stream = TRUE, !.streamState = "open"]
    IN  IF s.cfg.failAt = "listening"
        THEN [lockFail(s1, Rejection("progressError", "-", 0)) EXCEPT !.pc = "exited"]
        ELSE IF s.cfg.hasOnReady
        THEN [s1 EXCEPT !.handlers = TRUE, !.pc = "onReady",
                        !.onReadyState = "running", !.onReadyCalls = @ + 1]
        ELSE lockAttach(s1)

lockSubscribed(s) ==
    LET s1 == [s EXCEPT !.stream = TRUE, !.streamState = "open"]
    IN  IF s.cfg.failAt = "listening"
        THEN [lockFail(s1, Rejection("progressError", "-", 0)) EXCEPT !.pc = "exited"]
        ELSE IF s.cfg.hasOnReady
        THEN [s1 EXCEPT !.pc = "onReady", !.onReadyState = "running",
                        !.onReadyCalls = @ + 1]
        ELSE lockAttach(s1)

lockSubscribeFailed(s) ==
    [lockFail(s, Rejection("subscribeError", "-", 0)) EXCEPT !.pc = "exited"]

lockOnReadyDone(s) == lockAttach([s EXCEPT !.onReadyState = "done"])

\* an onReady failure that rejects the call without cleanup()
lockOnReadyFailedNoCleanup(s) ==
    [(IF ~s.resolved
      THEN Settle([s EXCEPT !.resolved = TRUE, !.onReadyState = "failed"],
                  Rejection("onReadyError", "-", 0))
      ELSE [s EXCEPT !.onReadyState = "failed"]) EXCEPT !.pc = "exited"]

lockOnReadyFailed(s) ==
    [lockFail([s EXCEPT !.onReadyState = "failed"],
              Rejection("onReadyError", "-", 0)) EXCEPT !.pc = "exited"]

(***************************************************************************)
(* The same for waitForDeposit.                                            *)
(***************************************************************************)
depositCleanup(s) ==
    LET s1 == IF s.timeoutId
              THEN [s EXCEPT !.timeoutId = FALSE, !.timerPending = FALSE,
                             !.clearCalls = @ + 1]
              ELSE s
        s2 == IF s1.stream
              THEN [s1 EXCEPT !.stream = FALSE, !.streamState = "cancelled",
                              !.cancelCalls = @ + 1]
              ELSE s1
    IN  [s2 EXCEPT !.disconnectCalls = @ + 1]

\* if (!resolved) { resolved = true; cleanup(); resolve({utxo: null, ...}); }
depositGiveUp(s) ==
    IF ~s.resolved
    THEN Settle(depositCleanup([s EXCEPT !.resolved = TRUE]),
                DepositResult(NullUtxo, 0, TRUE))
    ELSE s

\* a timer callback that rejects the call as the lock wait does
depositTimeoutRejects(s) ==
    IF ~s.resolved
    THEN Settle(depositCleanup([s EXCEPT !.resolved = TRUE]),
                Rejection("timeout", "-", s.cfg.timeoutMs))
    ELSE s

depositTimeout(s) == depositGiveUp(s)

ScriptHex(o) == IF o.p2pkh THEN 100 + o.hash ELSE 0

RECURSIVE outputScan(_, _, _)
\* for (let vout = 0; vout < tx.outputs.length; vout++) from output i on
\* (i is 1-based, vout is i - 1)
outputScan(outs, pubKeyHash, i) ==
    IF i > Len(outs) THEN NullUtxo
    ELSE IF outs[i].p2pkh /\ outs[i].hash = pubKeyHash
    THEN [isNull |-> FALSE, txid |-> TxHash(outs), vout |-> i - 1,
          satoshis |-> outs[i].satoshis, scriptPubKey |-> ScriptHex(outs[i]),
          confirmations |-> 0]
    ELSE outputScan(outs, pubKeyHash, i + 1)

parseTransactionForUtxo(tx, pubKeyHash) ==
    IF ~tx.ok THEN NullUtxo ELSE outputScan(tx.outputs, pubKeyHash, 1)

RECURSIVE depositScan(_, _, _)
\* for (let i = 0; i < txList.length; i++) { ... } from transaction i on
depositScan(s, txList, i) ==
    IF i > Len(txList) THEN s
    ELSE LET utxo == parseTransactionForUtxo(txList[i], s.cfg.pubKeyHash)
         IN  IF ~utxo.isNull /\ utxo.satoshis >= s.cfg.minAmount
             THEN Settle(depositCleanup([s EXCEPT !.resolved = TRUE]),
                         DepositResult(utxo, utxo.satoshis, FALSE))
             ELSE IF ~utxo.isNull
             THEN IF s.cfg.failAt = "data"
                  THEN [s EXCEPT !.swallowed = @ + 1, !.sawSmall = TRUE]
                  ELSE depositScan([s EXCEPT !.sawSmall = TRUE], txList, i + 1)
             ELSE depositScan(s, txList, i + 1)

\* a 'data' handler that takes the first output to the target hash, whatever
\* its amount
depositOnDataAnyAmount(s, txList) ==
    LET hits == {i \in 1..Len(txList) :
                    ~parseTransactionForUtxo(txList[i], s.cfg.pubKeyHash).isNull}
        first == CHOOSE i \in hits : \A j \in hits : i <= j
        utxo == parseTransactionForUtxo(txList[first], s.cfg.pubKeyHash)
    IN  IF s.resolved \/ hits = {} THEN s
        ELSE Settle(depositCleanup([s EXCEPT !.resolved = TRUE]),
                    DepositResult(utxo, utxo.satoshis, FALSE))

depositOnData(s, txList) ==
    IF s.resolved THEN s ELSE depositScan(s, txList, 1)

depositOnError(s) == s

depositOnEnd(s) == depositGiveUp(s)

depositSubscribed(s) ==
    LET s1 == [s EXCEPT !.stream = TRUE, !.streamState = "open"]
    IN  IF s.cfg.failAt = "listening"
        THEN [depositGiveUp(s1) EXCEPT !.pc = "exited"]
        ELSE [s1 EXCEPT !.handlers = TRUE, !.pc = "listening"]

depositSubscribeFailed(s) == [depositGiveUp(s) EXCEPT !.pc = "exited"]

(***************************************************************************)
(* withRetry (src/unnamed/part_000): the policy, the state of one          *)
(* invocation and the delay computation.                                   *)
(***************************************************************************)
\* failures the operation can raise
Errors == {"e1", "e2", "e3"}
\* the failure of a throwing onRetry callback, and `undefined`
OnRetryError == "onRetryError"
Undefined == "undefined"

\* values the operation can return
Values == {"v1", "v2"}

\* shouldRetry, as the set of failures it answers true for
RetryPredicates == {{"e1", "e2"}, {"e3"}}

\* baseDelayMs and maxDelayMs of a policy, counted in halves of a millisecond
\* (they are JavaScript numbers: 1 is 0.5 ms, 5 is 2.5 ms, 6 is 3 ms)
BaseDelays == {0, 1, 2, 6}
MaxDelays == {4, 5, 20}

\* onRetry: not given, given, or given and throwing
OnRetryKinds == {"absent", "returns", "throws"}

RetryOptions ==
    [maxAttempts : 0..MaxAttempts, baseDelayMs : BaseDelays, maxDelayMs : MaxDelays,
     shouldRetry : RetryPredicates, onRetry : OnRetryKinds]

\* what has happened in an invocation, in order
Event(ev, n, m, err) == [ev |-> ev, n |-> n, m |-> m, err |-> err]

NewRun(options) ==
    [options |-> options,
     pc |-> "idle",             \* idle, fn, waiting, done
     attempt |-> 0,
     lastError |-> Undefined,
     status |-> "pending",      \* pending, returned, threw
     result |-> Undefined,      \* the value returned or the failure thrown
     log |-> <<>>]

NoRun ==
    NewRun([maxAttempts |-> 0, baseDelayMs |-> 0, maxDelayMs |-> 4,
            shouldRetry |-> {"e3"}, onRetry |-> "absent"])

Min(a, b) == IF a <= b THEN a ELSE b

\* calculateDelay without the cap
calculateDelayUncapped(attempt, baseDelayMs, maxDelayMs, k) ==
    LET exponentialDelay == baseDelayMs * 2 ^ attempt
    IN  (2 * RandomSteps * exponentialDelay + k * exponentialDelay)
            \div (4 * RandomSteps)

\* calculateDelay, Math.random() returning k / RandomSteps: the arguments are
\* in halves of a millisecond, the result is in milliseconds,
\* Math.floor(cappedDelay + (k / RandomSteps) * cappedDelay * 0.5)
calculateDelay(attempt, baseDelayMs, maxDelayMs, k) ==
    LET exponentialDelay == baseDelayMs * 2 ^ attempt
        cappedDelay == Min(exponentialDelay, maxDelayMs)
    IN  (2 * RandomSteps * cappedDelay + k * cappedDelay) \div (4 * RandomSteps)

\* the head of the for loop: the next attempt of fn, or `throw lastError`
\* after the loop
loopHead(r) ==
    IF r.attempt < r.options.maxAttempts
    THEN [r EXCEPT !.pc = "fn", !.log = Append(@, Event("fn", r.attempt, 0, "-"))]
    ELSE [r EXCEPT !.pc = "done", !.status = "threw", !.result = r.lastError]

\* an attempt whose success does not end the loop
fnReturnedKeepsGoing(r, v) ==
    [r EXCEPT !.pc = "waiting", !.result = v,
              !.log = Append(@, Event("ok", r.attempt, 0, v))]

\* `return await fn()` when fn's promise resolves
fnReturned(r, v) ==
    [r EXCEPT !.pc = "done", !.status = "returned", !.result = v,
              !.log = Append(@, Event("ok", r.attempt, 0, v))]

\* a last-attempt test that is true one attempt early
isLastAttemptEarly(r) == r.attempt >= r.options.maxAttempts - 2

\* const isLastAttempt = attempt === maxAttempts - 1
isLastAttempt(r) == r.attempt = r.options.maxAttempts - 1

\* a predicate that calls every failure retryable
shouldRetryAlways(r, error) == TRUE

\* shouldRetry(error)
shouldRetry(r, error) == error \in r.options.shouldRetry

\* an onRetry call that passes the 0-based attempt
onRetryZeroBased(r, error) ==
    IF r.options.onRetry = "absent" THEN r
    ELSE [r EXCEPT !.log = Append(@, Event("onRetry", r.attempt,
                                           r.options.maxAttempts, error))]

\* if (onRetry) { onRetry(attempt + 1, maxAttempts, error) }
onRetry(r, error) ==
    IF r.options.onRetry = "absent" THEN r
    ELSE [r EXCEPT !.log = Append(@, Event("onRetry", r.attempt + 1,
                                           r.options.maxAttempts, error))]

\* await new Promise((resolve) => setTimeout(resolve, delay)), up to the await
sleep(r, delay) ==
    [r EXCEPT !.pc = "waiting",
              !.log = Append(@, Event("sleep", delay, r.attempt, "-"))]

\* a throw inside the catch clause leaves withRetry
throw(r, error) == [r EXCEPT !.pc = "done", !.status = "threw", !.result = error]

\* a catch clause that ignores an exception of onRetry
fnFailedSwallowsOnRetry(r, error, k) ==
    LET r1 == [r EXCEPT !.lastError = error,
                        !.log = Append(@, Event("fail", r.attempt, 0, error))]
        delay == calculateDelay(r.attempt, r.options.baseDelayMs,
                                r.options.maxDelayMs, k)
    IN  IF isLastAttempt(r1) \/ ~shouldRetry(r1, error)
        THEN throw(r1, error)
        ELSE sleep(onRetry(r1, error), delay)

\* the catch clause of an attempt
fnFailed(r, error, k) ==
    LET r1 == [r EXCEPT !.lastError = error,
                        !.log = Append(@, Event("fail", r.attempt, 0, error))]
        delay == calculateDelay(r.attempt, r.options.baseDelayMs,
                                r.options.maxDelayMs, k)
    IN  IF isLastAttempt(r1) \/ ~shouldRetry(r1, error)
        THEN throw(r1, error)
        ELSE IF r.options.onRetry = "throws"
        THEN throw(onRetry(r1, error), OnRetryError)
        ELSE sleep(onRetry(r1, error), delay)

\* the timer of the delay fires: attempt++ and the loop goes on
delayElapsed(r) ==
    loopHead([r EXCEPT !.attempt = @ + 1,
                       !.log = Append(@, Event("wake", 0, 0, "-"))])

(***************************************************************************)
(* The error classifier (src/unnamed/part_000): extractErrorMessage and    *)
(* isRetryableError.  Texts are strings; a JavaScript value is a record    *)
(* of its type and content, an object lives in a heap at an address so     *)
(* that a structure can lead back to itself.                               *)
(***************************************************************************)
UnknownError == "An unknown error occurred"

\* String.prototype.includes
Includes(s, p) ==
    \E i \in 1..(Len(s) - Len(p) + 1) : SubSeq(s, i, i + Len(p) - 1) = p

Upper == "ABCDEFGHIJKLMNOPQRSTUVWXYZ"
Lower == "abcdefghijklmnopqrstuvwxyz"

\* String.prototype.toLowerCase, over the letters the inputs use
LowerChar(c) ==
    IF \E i \in 1..Len(Upper) : SubSeq(Upper, i, i) = c
    THEN LET i == CHOOSE i \in 1..Len(Upper) : SubSeq(Upper, i, i) = c
         IN  SubSeq(Lower, i, i)
    ELSE c
RECURSIVE ToLowerCase(_)
ToLowerCase(s) ==
    IF Len(s) <= 1 THEN LowerChar(s)
    ELSE LET half == Len(s) \div 2
         IN  ToLowerCase(SubSeq(s, 1, half)) \o ToLowerCase(SubSeq(s, half + 1, Len(s)))

\* JavaScript values
JSUndefined == [type |-> "undefined", str |-> "", num |-> 0]
JSNull == [type |-> "null", str |-> "", num |-> 0]
Str(s) == [type |-> "string", str |-> s, num |-> 0]
Num(n) == [type |-> "number", str |-> "", num |-> n]
Bool(b) == [type |-> "boolean", str |-> IF b THEN "true" ELSE "false", num |-> 0]
Ref(a) == [type |-> "object", str |-> "", num |-> a]

\* an object: its class and its own properties
Obj(class, props) == [class |-> class, props |-> props]
NoProps == [f \in {} |-> JSUndefined]
ErrorClasses == {"Error", "TypeError", "DOMException"}

\* `field in errObj`: own, or inherited from Error.prototype
In(field, errObj) ==
    \/ field \in DOMAIN errObj.props
    \/ errObj.class \in ErrorClasses /\ field \in {"message", "name"}

\* errObj.field
Get(errObj, field) ==
    IF field \in DOMAIN errObj.props THEN errObj.props[field]
    ELSE IF errObj.class \in ErrorClasses /\ field = "message" THEN Str("")
    ELSE IF errObj.class \in ErrorClasses /\ field = "name"
         THEN Str(IF errObj.class = "TypeError" THEN "TypeError" ELSE "Error")
    ELSE JSUndefined

\* error instanceof Error / TypeError / DOMException
InstanceOf(heap, error, class) ==
    /\ error.type = "object"
    /\ \/ heap[error.num].class = class
       \/ class = "Error" /\ heap[error.num].class \in ErrorClasses

Truthy(v) ==
    CASE v.type \in {"undefined", "null"} -> FALSE
      [] v.type = "string" -> v.str # ""
      [] v.type = "number" -> v.num # 0
      [] v.type = "boolean" -> v.str = "true"
      [] OTHER -> TRUE

\* how a call ends: with a string, or by raising
Returned(s) == [raised |-> FALSE, type |-> "string", value |-> s]
Raised(e) == [raised |-> TRUE, type |-> "-", value |-> e]
\* a return of a value as it is, a string or not
ReturnedValue(v) ==
    [raised |-> FALSE, type |-> v.type,
     value |-> IF v.type = "string" THEN v.str ELSE ""]
\* a call that calls itself with the arguments it was called with never
\* returns by itself; the engine ends it when the stack is exhausted
StackExhausted == Raised("RangeError: Maximum call stack size exceeded")

\* String(v) and `${v}`; an Error's toString is Error.prototype.toString
RECURSIVE String(_, _, _)
String(heap, v, stack) ==
    CASE v.type = "string" -> Returned(v.str)
      [] v.type = "number" -> Returned(ToString(v.num))
      [] v.type = "boolean" -> Returned(v.str)
      [] v.type = "null" -> Returned("null")
      [] v.type = "undefined" -> Returned("undefined")
      [] OTHER ->
          IF heap[v.num].class \notin ErrorClasses THEN Returned("[object Object]")
          ELSE IF v.num \in stack THEN StackExhausted
          ELSE LET o == heap[v.num]
                   name == IF Get(o, "name").type = "undefined" THEN Returned("Error")
                           ELSE String(heap, Get(o, "name"), stack \cup {v.num})
                   msg == IF Get(o, "message").type = "undefined" THEN Returned("")
                          ELSE String(heap, Get(o, "message"), stack \cup {v.num})
               IN  IF name.raised THEN name
                   ELSE IF msg.raised THEN msg
                   ELSE IF name.value = "" THEN msg
                   ELSE IF msg.value = "" THEN name
                   ELSE Returned(name.value \o ": " \o msg.value)

\* the properties in the order JSON.stringify writes them
Fields == <<"message", "msg", "error", "cause", "name", "code", "kind", "retriable">>
Quote == "\""

\* own enumerable properties: the message a constructor set is not
\* enumerable, a DOMException's properties are accessors of its prototype
Enumerable(o, field) ==
    /\ field \in DOMAIN o.props
    /\ o.props[field].type # "undefined"
    /\ o.class # "DOMException"
    /\ o.class \in ErrorClasses => field # "message"

\* JSON.stringify(v) for a value that is not undefined; raises on a cycle
RECURSIVE JSONStringify(_, _, _)
JSONStringify(heap, v, stack) ==
    CASE v.type = "string" -> Returned(Quote \o v.str \o Quote)
      [] v.type = "number" -> Returned(ToString(v.num))
      [] v.type = "boolean" -> Returned(v.str)
      [] v.type = "null" -> Returned("null")
      [] OTHER ->
          IF v.num \in stack THEN Raised("TypeError: cyclic object value")
          ELSE LET o == heap[v.num]
                   member(i) == JSONStringify(heap, o.props[Fields[i]], stack \cup {v.num})
                   written == {i \in 1..Len(Fields) : Enumerable(o, Fields[i])}
                   RECURSIVE join(_)
                   join(i) ==
                       IF i > Len(Fields) THEN ""
                       ELSE IF i \notin written THEN join(i + 1)
                       ELSE (IF \E j \in written : j < i THEN "," ELSE "")
                            \o Quote \o Fields[i] \o Quote \o ":" \o member(i).value
                            \o join(i + 1)
               IN  IF \E i \in written : member(i).raised
                   THEN member(CHOOSE i \in written : member(i).raised)
                   ELSE Returned("{" \o join(1) \o "}")

JsonLimit == 200

\* lines 108-139: the name, the native description, the dump, the fallback
describe(heap, error) ==
    LET errObj == heap[error.num]
        name == Get(errObj, "name")
        code == String(heap, Get(errObj, "code"), {})
        kind == String(heap, Get(errObj, "kind"), {})
        message == Get(errObj, "message")
        json == JSONStringify(heap, error, {})
        str == String(heap, error, {})
        fallback == IF str.raised THEN str
                    ELSE IF str.value = "[object Object]" THEN Returned(UnknownError)
                    ELSE str
    IN  IF error.type # "object" THEN fallback
        ELSE IF In("name", errObj) /\ name.type = "string" THEN
            IF In("code", errObj)
            THEN IF code.raised THEN code
                 ELSE Returned(name.str \o ": code " \o code.value)
            ELSE IF In("kind", errObj)
            THEN IF kind.raised THEN kind
                 ELSE Returned(name.str \o ": kind " \o kind.value)
            ELSE Returned(name.str)
        ELSE IF InstanceOf(heap, error, "Error") THEN
            IF Truthy(message) THEN ReturnedValue(message) ELSE str
        ELSE IF ~json.raised /\ json.value # "{}" THEN
            IF Len(json.value) > JsonLimit
            THEN Returned(SubSeq(json.value, 1, JsonLimit) \o "...")
            ELSE json
        ELSE fallback

\* stack: the objects whose extraction is under way
RECURSIVE extractErrorMessageFrom(_, _, _)
extractErrorMessageFrom(heap, error, stack) ==
    IF error.type \in {"null", "undefined"} THEN Returned(UnknownError)
    ELSE IF error.type = "string" THEN Returned(error.str)
    ELSE IF error.type # "object" THEN describe(heap, error)
    ELSE IF error.num \in stack THEN StackExhausted
    ELSE
        LET errObj == heap[error.num]
            message == Get(errObj, "message")
            msg == Get(errObj, "msg")
            nested == Get(errObj, "error")
            cause == Get(errObj, "cause")
            causeMsg == extractErrorMessageFrom(heap, cause, stack \cup {error.num})
        IN  IF In("message", errObj) /\ message.type = "string" /\ message.str # ""
            THEN Returned(message.str)
            ELSE IF In("msg", errObj) /\ msg.type = "string" /\ msg.str # ""
            THEN Returned(msg.str)
            ELSE IF In("error", errObj) /\ nested.type = "string"
            THEN Returned(nested.str)
            ELSE IF In("error", errObj) /\ nested.type = "object"
            THEN extractErrorMessageFrom(heap, nested, stack \cup {error.num})
            ELSE IF In("cause", errObj) /\ Truthy(cause)
                    /\ (causeMsg.raised \/ causeMsg.value # UnknownError)
            THEN causeMsg
            ELSE describe(heap, error)

extractErrorMessage(heap, error) == extractErrorMessageFrom(heap, error, {})

PLATFORM_TRANSIENT_ERRORS ==
    <<"tenderdash is not available", "tenderdash unavailable",
      "unavailable", "deadline exceeded", "resource exhausted", "aborted",
      "internal error", "unknown error",
      "state transition broadcast error", "broadcast error", "consensus error",
      "no available addresses", "failed to connect", "connection refused",
      "connection reset", "socket hang up", "epipe", "econnreset",
      "temporarily unavailable", "try again", "retry", "busy",
      "wasm", "memory">>

True == [raised |-> FALSE, type |-> "boolean", value |-> "true"]
False == [raised |-> FALSE, type |-> "boolean", value |-> "false"]
NotAFunction == Raised("TypeError: toLowerCase is not a function")

IncludesAny(s, patterns) == \E p \in patterns : Includes(s, p)

isRetryableError(heap, error) ==
    LET extracted == extractErrorMessage(heap, error)
        message == ToLowerCase(extracted.value)
        errObj == heap[error.num]
        code == Get(errObj, "code")
        ownMessage == Get(errObj, "message")
        errorMsg == ToLowerCase(ownMessage.str)
    IN  IF extracted.raised THEN extracted
        ELSE IF extracted.type # "string" THEN NotAFunction
        ELSE IF \E i \in 1..Len(PLATFORM_TRANSIENT_ERRORS) :
                    Includes(message, PLATFORM_TRANSIENT_ERRORS[i])
        THEN True
        ELSE IF error.type # "object" THEN False
        ELSE IF In("retriable", errObj) /\ Get(errObj, "retriable") = Bool(TRUE)
        THEN True
        ELSE IF In("code", errObj) /\ code.type = "number"
                /\ code.num \in {14, 4, 8, 10}
        THEN True
        ELSE IF In("code", errObj) /\ code = Num(-1)
                /\ Includes(message, "not available")
        THEN True
        ELSE IF InstanceOf(heap, error, "Error") /\ ownMessage.type # "string"
        THEN NotAFunction
        ELSE IF InstanceOf(heap, error, "TypeError")
                /\ IncludesAny(errorMsg, {"network", "fetch", "failed to fetch",
                                          "load failed", "networkerror"})
        THEN True
        ELSE IF InstanceOf(heap, error, "Error")
                /\ IncludesAny(errorMsg,
                       {"err_internet_disconnected", "err_network", "econnreset",
                        "econnrefused", "etimedout", "enotfound",
                        "network request failed", "network error",
                        "connection", "timeout"})
        THEN True
        ELSE IF InstanceOf(heap, error, "Error")
                /\ IncludesAny(errorMsg,
                       {"500", "502", "503", "504", "429",
                        "internal server error", "bad gateway",
                        "service unavailable", "gateway timeout"})
        THEN True
        ELSE IF InstanceOf(heap, error, "DOMException")
                /\ Get(errObj, "name") = Str("AbortError")
        THEN True
        ELSE False

\* the failures the classifier is given: address 1 is the failure itself,
\* address 2 an object it may refer to
Absent == [type |-> "absent", str |-> "", num |-> 0]
Failure(heap, error) == [heap |-> heap, error |-> error]
WithProps(class, props) ==
    Obj(class, [f \in {g \in DOMAIN props : props[g] # Absent} |-> props[f]])
Refers(props, a) == \E f \in DOMAIN props : props[f] = Ref(a)

Primitives ==
    {Failure(<<>>, v) :
        v \in {JSUndefined, JSNull, Str(""), Str("boom"), Num(3), Bool(FALSE)}}

MessageValues == {Absent, Str(""), Str("boom")}
ErrorValues == {Absent, JSNull, Str(""), Str("boom"), Ref(1), Ref(2)}
CauseValues == {Absent, JSNull, Str("boom"), Ref(1), Ref(2)}
NameValues == {Absent, Str(""), Str("Boom"), Num(3)}
CodeValues == {Absent, Num(3)}
KindValues == {Absent, Str("k")}
Long == "0123456789012345678901234567890123456789012345678901234567890123456789012345678901234567890123456789"
Nested ==
    {Obj("Object", NoProps),
     Obj("Object", [f \in {"message"} |-> Str("inner")]),
     Obj("Object", [f \in {"cause"} |-> Ref(1)]),
     Obj("Object", [f \in {"cause"} |-> Ref(2)]),
     Obj("Object", [f \in {"kind"} |-> Str(Long \o Long \o "x")]),
     Obj("Error", NoProps)}
Structure(class, props, o) ==
    IF Refers(props, 2) THEN Failure(<<WithProps(class, props), o>>, Ref(1))
    ELSE Failure(<<WithProps(class, props)>>, Ref(1))

\* messages of failures, by what they say
Texts ==
    {"invalid argument", "Service Unavailable (503)", "HTTP 500", "HTTP 502",
     "HTTP 504", "status 429", "Internal Server Error", "Bad Gateway",
     "Gateway Timeout", "net::ERR_INTERNET_DISCONNECTED", "peer disconnected",
     "request timeout", "read ECONNRESET", "connect ECONNREFUSED",
     "getaddrinfo ENOTFOUND", "Failed to fetch", "Load failed",
     "NetworkError when attempting to fetch resource",
     "Tenderdash is not available", "node not available",
     "Deadline Exceeded", "insufficient funds"}
Codes == {Absent, Num(3), Num(14), Num(4), Num(8), Num(10), Num(-1)}
Flags == {Absent, Bool(TRUE), Bool(FALSE)}
\* an object of the class that says text, with a code and a flag or without
Carrier(class, text, code, flag, name) ==
    LET props == [f \in {"message", "code", "retriable", "name"} |->
                     CASE f = "message" -> Str(text)
                       [] f = "code" -> code
                       [] f = "retriable" -> flag
                       [] OTHER -> name]
    IN  Failure(<<WithProps(class, props)>>, Ref(1))
Carriers ==
    {Failure(<<>>, Str(text)) : text \in Texts}
    \cup {Carrier(class, text, code, flag, Absent) :
            <<class, text, code, flag>> \in
                {"Object", "Error", "TypeError"} \X Texts \X Codes \X Flags}
    \cup {Carrier("DOMException", text, Absent, Absent, Str(name)) :
            <<text, name>> \in Texts \X {"AbortError", "NotFoundError"}}

NoOutcome == [raised |-> FALSE, type |-> "-", value |-> "-"]
NewEvaluation(failure) ==
    [pc |-> "called", heap |-> failure.heap, error |-> failure.error,
     result |-> NoOutcome]
NoEvaluation ==
    [pc |-> "none", heap |-> <<>>, error |-> JSUndefined, result |-> NoOutcome]

(***************************************************************************)
(* The proof-of-work solver (src/src/api/faucet.ts): meetsTarget and       *)
(* solveChallenge.  SHA-256 is a function from the candidate's text to a   *)
(* hash in lowercase hex, as bufferToHex writes it.                        *)
(***************************************************************************)
\* the width of a hash in bytes, the iteration limit and the interval of
\* the yields; they stand for 32, 10_000_000 and 10000
HashBytes == 2
MaxIterations == 3
YieldInterval == 2

HexDigits == "0123456789abcdef"
HexDigit(d) == SubSeq(HexDigits, d + 1, d + 1)
\* b.toString(16).padStart(2, '0')
ByteToHex(b) == HexDigit(b \div 16) \o HexDigit(b % 16)
DigitValue(c) == (CHOOSE i \in 1..Len(HexDigits) : SubSeq(HexDigits, i, i) = c) - 1
\* parseInt(s, 16) of two hex digits; of the empty string, NaN, which `&` takes as 0
ParseInt16(s) ==
    IF s = "" THEN 0
    ELSE 16 * DigitValue(SubSeq(s, 1, 1)) + DigitValue(SubSeq(s, 2, 2))
\* hashHex.substring(from, to)
Substring(s, from, to) == SubSeq(s, Min(from, Len(s)) + 1, Min(to, Len(s)))

RECURSIVE Pow2(_)
Pow2(n) == IF n = 0 THEN 1 ELSE 2 * Pow2(n - 1)
\* a & b
RECURSIVE BitAnd(_, _)
BitAnd(a, b) ==
    IF a = 0 \/ b = 0 THEN 0
    ELSE (a % 2) * (b % 2) + 2 * BitAnd(a \div 2, b \div 2)

meetsTargetWholeBytes(hashHex, difficulty) ==
    \A i \in 0..(difficulty \div 8 - 1) :
        Substring(hashHex, i * 2, i * 2 + 2) = "00"

meetsTarget(hashHex, difficulty) ==
    LET leadingZeroBytes == difficulty \div 8
        remainingBits == difficulty % 8
        nextByte == ParseInt16(Substring(hashHex, leadingZeroBytes * 2,
                                         leadingZeroBytes * 2 + 2))
        mask == 255 * Pow2(8 - remainingBits)
    IN  /\ \A i \in 0..(leadingZeroBytes - 1) :
               Substring(hashHex, i * 2, i * 2 + 2) = "00"
        /\ remainingBits > 0 => BitAnd(nextByte, mask) = 0

\* the bytes a hash is drawn from: for every number of leading zero bits
\* of a byte, the least and the greatest byte that has it
Bytes == {0, 1, 2, 3, 4, 7, 8, 15, 16, 31, 32, 63, 64, 127, 128, 255}
RECURSIVE HexOf(_)
HexOf(bytes) ==
    IF bytes = <<>> THEN "" ELSE ByteToHex(Head(bytes)) \o HexOf(Tail(bytes))
HashValues == {HexOf(bytes) : bytes \in [1..HashBytes -> Bytes]}
Difficulties == 0..(8 * HashBytes)

\* what the solver is asked and the hashes of its candidates
Challenges == {"c1", "c2"}
\* `${challenge.challenge}:${nonce}`
Candidate(challenge, nonce) == challenge \o ":" \o ToString(nonce)
\* the candidates up to the first one beyond the iteration limit
Candidates(challenge) == {Candidate(challenge, n) : n \in 0..MaxIterations}
\* hashes with 0, 8, 13 and 8 * HashBytes leading zero bits
Zeros(n) == HexOf([i \in 1..n |-> 0])
DigestValues ==
    {HexOf(<<255>>) \o HexOf([i \in 1..(HashBytes - 1) |-> 255]),
     HexOf(<<0, 255>>) \o HexOf([i \in 1..(HashBytes - 2) |-> 255]),
     HexOf(<<0, 7>>) \o HexOf([i \in 1..(HashBytes - 2) |-> 255]),
     Zeros(HashBytes)}

Solution(challenge, nonce) ==
    [tag |-> "solution", challenge |-> challenge, nonce |-> nonce]
IterationLimit ==
    [tag |-> "Failed to solve proof of work within iteration limit",
     challenge |-> "-", nonce |-> 0]
NoSolution == [tag |-> "none", challenge |-> "-", nonce |-> 0]

\* the difficulties of the challenges: none, one bit, a whole byte, bits of
\* the second byte, the whole hash
ChallengeDifficulties == {0, 1, 8, 9, 13, 14, 8 * HashBytes}

NewSearchFromOne(challenge, difficulty, sha256) ==
    [pc |-> "called", challenge |-> challenge, difficulty |-> difficulty,
     sha256 |-> sha256, nonce |-> 1, examined |-> <<>>, yields |-> 0,
     result |-> NoSolution]

NewSearch(challenge, difficulty, sha256) ==
    [pc |-> "called", challenge |-> challenge, difficulty |-> difficulty,
     sha256 |-> sha256, nonce |-> 0, examined |-> <<>>, yields |-> 0,
     result |-> NoSolution]
NoSearch ==
    [pc |-> "none", challenge |-> "-", difficulty |-> 0, sha256 |-> <<>>,
     nonce |-> 0, examined |-> <<>>, yields |-> 0, result |-> NoSolution]

whileHeadInclusive(p) ==
    IF p.nonce <= MaxIterations THEN [p EXCEPT !.pc = "digest"]
    ELSE [p EXCEPT !.pc = "threw", !.result = IterationLimit]

\* `while (nonce < maxIterations)`: the next digest, or the throw at 112
whileHead(p) ==
    IF p.nonce < MaxIterations THEN [p EXCEPT !.pc = "digest"]
    ELSE [p EXCEPT !.pc = "threw", !.result = IterationLimit]

digestedReturnsNext(p) ==
    LET hashHex == p.sha256[Candidate(p.challenge, p.nonce)]
        seen == [p EXCEPT !.examined = Append(@, p.nonce)]
        next == [seen EXCEPT !.nonce = @ + 1]
    IN  IF meetsTarget(hashHex, p.difficulty)
        THEN [next EXCEPT !.pc = "returned",
                          !.result = Solution(p.challenge, next.nonce)]
        ELSE IF next.nonce % YieldInterval = 0
        THEN [next EXCEPT !.pc = "yielded", !.yields = @ + 1]
        ELSE whileHead(next)

\* the digest of the candidate has arrived: lines 98-109
digested(p) ==
    LET hashHex == p.sha256[Candidate(p.challenge, p.nonce)]
        seen == [p EXCEPT !.examined = Append(@, p.nonce)]
        next == [seen EXCEPT !.nonce = @ + 1]
    IN  IF meetsTarget(hashHex, p.difficulty)
        THEN [seen EXCEPT !.pc = "returned",
                          !.result = Solution(p.challenge, p.nonce)]
        ELSE IF next.nonce % YieldInterval = 0
        THEN [next EXCEPT !.pc = "yielded", !.yields = @ + 1]
        ELSE whileHead(next)

(***************************************************************************)
(* Policies as the callers write them (RetryOptions, every field           *)
(* optional), createRetryWrapper and createRetryOptionsWithCallback.       *)
(***************************************************************************)
\* a field of an options object: not there, there and undefined, or a value
NotGiven(z) == [given |-> "absent", v |-> z]
GivenUndefined(z) == [given |-> "undefined", v |-> z]
Given(v) == [given |-> "value", v |-> v]

FieldNames == {"maxAttempts", "baseDelayMs", "maxDelayMs", "shouldRetry", "onRetry"}
OptionsObjects ==
    [maxAttempts : {NotGiven(0), GivenUndefined(0), Given(1), Given(2)},
     baseDelayMs : {NotGiven(0), Given(2), Given(6)},
     maxDelayMs : {NotGiven(0), Given(4)},
     shouldRetry : {NotGiven({}), Given({"e1", "e2"}), Given({"e3"})},
     onRetry : {NotGiven("absent"), GivenUndefined("absent"), Given("returns")}]
\* `options` left out: spreading undefined adds nothing
NoOptions ==
    [maxAttempts |-> NotGiven(0), baseDelayMs |-> NotGiven(0),
     maxDelayMs |-> NotGiven(0), shouldRetry |-> NotGiven({}),
     onRetry |-> NotGiven("absent")]

\* the failures the operation raises, as values
FailureOf(error) ==
    CASE error = "e1" -> Carrier("Error", "request timeout", Absent, Absent, Absent)
      [] error = "e2" -> Carrier("Object", "invalid argument", Num(3), Absent, Absent)
      [] OTHER -> Failure(<<>>, Str("Tenderdash is not available"))

DefaultMaxAttempts == 3
DefaultBaseDelayMs == 1000
DefaultMaxDelayMs == 10000
\* shouldRetry = isRetryableError, as the set of failures it answers true for
DefaultShouldRetry ==
    {error \in Errors :
        isRetryableError(FailureOf(error).heap, FailureOf(error).error) = True}

\* the destructuring of withRetry: a field that is absent or undefined takes
\* its default; the delays are kept in halves of a millisecond
destructure(options) ==
    LET field(f, default) ==
            IF options[f].given = "value" THEN options[f].v ELSE default
    IN  [maxAttempts |-> field("maxAttempts", DefaultMaxAttempts),
         baseDelayMs |-> field("baseDelayMs", 2 * DefaultBaseDelayMs),
         maxDelayMs |-> field("maxDelayMs", 2 * DefaultMaxDelayMs),
         shouldRetry |-> field("shouldRetry", DefaultShouldRetry),
         onRetry |-> field("onRetry", "absent")]

\* { ...a, ...b }
spread(a, b) ==
    [f \in FieldNames |-> IF b[f].given # "absent" THEN b[f] ELSE a[f]]

\* a wrapper that assigns the overrides to its default options
createRetryWrapperAssigns(w, options) ==
    [w EXCEPT !.pc = "called", !.options = options,
              !.defaultOptions = spread(w.defaultOptions, options),
              !.passed = spread(w.defaultOptions, options)]

\* the function createRetryWrapper returns, called with options: what it
\* passes to withRetry
createRetryWrapper(w, options) ==
    [w EXCEPT !.pc = "called", !.options = options,
              !.passed = spread(w.defaultOptions, options)]

NewWrapper(defaultOptions) ==
    [pc |-> "created", created |-> defaultOptions,
     defaultOptions |-> defaultOptions, options |-> NoOptions,
     passed |-> NoOptions]

PlatformMaxAttempts == 5
PlatformBaseDelayMs == 2000
PlatformMaxDelayMs == 30000
PLATFORM_RETRY_OPTIONS ==
    [maxAttempts |-> Given(PlatformMaxAttempts),
     baseDelayMs |-> Given(2 * PlatformBaseDelayMs),
     maxDelayMs |-> Given(2 * PlatformMaxDelayMs),
     shouldRetry |-> Given(DefaultShouldRetry),
     onRetry |-> NotGiven("absent")]

\* the base policies createRetryOptionsWithCallback is given
BaseOptions ==
    [maxAttempts : {NotGiven(0), Given(2)},
     baseDelayMs : {NotGiven(0), Given(2)},
     maxDelayMs : {NotGiven(0), Given(4)},
     shouldRetry : {NotGiven({}), Given({"e1", "e2"})},
     onRetry : {NotGiven("absent"), GivenUndefined("absent"), Given("returns"),
                Given("throws")}]
    \cup {PLATFORM_RETRY_OPTIONS}

\* { ...baseOptions, onRetry: (attempt, maxAttempts, error) => ... }
createRetryOptionsWithCallback(baseOptions) ==
    [baseOptions EXCEPT !.onRetry = Given("updateRetryStatus")]

\* the argument the callback passes to updateRetryStatus
updateRetryStatus(attempt, maxAttempts, error) ==
    [isRetrying |-> TRUE, attempt |-> attempt, maxAttempts |-> maxAttempts,
     lastError |-> extractErrorMessage(FailureOf(error).heap,
                                       FailureOf(error).error).value]

RECURSIVE Statuses(_)
\* the calls of updateRetryStatus that the calls of onRetry in a log make
Statuses(log) ==
    IF log = <<>> THEN <<>>
    ELSE IF Head(log).ev = "onRetry"
    THEN <<updateRetryStatus(Head(log).n, Head(log).m, Head(log).err)>>
            \o Statuses(Tail(log))
    ELSE Statuses(Tail(log))

\* a run under the policy with the callback, beside a run under the base
\* policy that is given the same outcomes
NewCallback(baseOptions) ==
    [pc |-> "callback", baseOptions |-> baseOptions,
     baseRun |-> NewRun(destructure(baseOptions)), sink |-> <<>>]
NoWrapper == [pc |-> "none"]

(***************************************************************************)
(* solveCap (src/src/api/faucet.ts): the requests it sends, in order, and  *)
(* how it ends.  A response is ok or not, with its status and its JSON     *)
(* body; a fetch or a body that fails is the response "rejected".          *)
(***************************************************************************)
Request(method, url, body) == [method |-> method, url |-> url, body |-> body]
Response(ok, status, body) == [ok |-> ok, status |-> status, body |-> body]
Rejected == Response(FALSE, "rejected", Undefined)
\* what the verifier answers: a token, a body without one, a refusal
VerifyResponses ==
    {Response(TRUE, "200", "token-1"), Response(TRUE, "200", Undefined),
     Response(FALSE, "403", "token-1"), Response(FALSE, "500", Undefined),
     Rejected}
ChallengeStatuses == {"200", "429", "rejected"}
\* the difficulties the server asks for: none, bits of the second byte, the
\* whole hash
CapDifficulties == {0, 9, 13, 8 * HashBytes}

\* JSON.stringify({ challenge, nonce })
StringifySolution(solution) ==
    "{" \o Quote \o "challenge" \o Quote \o ":" \o Quote \o solution.challenge
        \o Quote \o "," \o Quote \o "nonce" \o Quote \o ":"
        \o ToString(solution.nonce) \o "}"

NewCap(challenge, difficulty, sha256) ==
    [pc |-> "idle",             \* idle, challenge, solving, verify, done
     server |-> [challenge |-> challenge, difficulty |-> difficulty],
     sha256 |-> sha256,
     requests |-> <<>>,         \* the requests sent, in order
     responses |-> <<>>,        \* the responses received, in order
     challenge |-> Undefined,   \* the challenge string received
     status |-> "pending",      \* pending, returned, threw
     result |-> Undefined]      \* the token returned or the failure thrown

\* solveCap up to `await fetch(`${capEndpoint}/challenge`)`
solveCap(c) ==
    [c EXCEPT !.pc = "challenge",
              !.requests = Append(@, Request("GET", "/challenge", ""))]

capThrow(c, message) ==
    [c EXCEPT !.pc = "done", !.status = "threw", !.result = message]

\* the challenge response has arrived: lines 121-125
challengeResponded(c, response) ==
    LET c1 == [c EXCEPT !.responses = Append(@, response)]
    IN  IF response = Rejected THEN capThrow(c1, "rejected")
        ELSE IF ~response.ok
        THEN capThrow(c1, "Failed to get CAP challenge: " \o response.status)
        ELSE [c1 EXCEPT !.pc = "solving", !.challenge = response.body.challenge]

\* solveChallenge has returned: the verify request, lines 131-135
solved(c, solution) ==
    [c EXCEPT !.pc = "verify",
              !.requests = Append(@, Request("POST", "/verify",
                                             StringifySolution(solution)))]

\* a verify response whose status is not looked at
verifyRespondedIgnoresStatus(c, response) ==
    LET c1 == [c EXCEPT !.responses = Append(@, response)]
    IN  IF response = Rejected THEN capThrow(c1, "rejected")
        ELSE [c1 EXCEPT !.pc = "done", !.status = "returned",
                        !.result = response.body]

\* the verify response has arrived: lines 137-142
verifyResponded(c, response) ==
    LET c1 == [c EXCEPT !.responses = Append(@, response)]
    IN  IF response = Rejected THEN capThrow(c1, "rejected")
        ELSE IF ~response.ok
        THEN capThrow(c1, "CAP verification failed: " \o response.status)
        ELSE [c1 EXCEPT !.pc = "done", !.status = "returned",
                        !.result = response.body]

NoCap == [pc |-> "none"]

(***************************************************************************)
(* Actions.                                                                *)
(***************************************************************************)
IsLock(s) == sess[s].cfg.kind = "lock"
IsDeposit(s) == sess[s].cfg.kind = "deposit"

\* calls that keep `resolved` in one place for all of them
StepSharedResolved(s, next) ==
    /\ sess' = [t \in Sessions |->
                  IF t = s THEN next
                  ELSE [sess[t] EXCEPT
                           !.resolved = @ \/ (next.resolved /\ ~sess[s].resolved)]]
    /\ UNCHANGED <<dapiClient, clients, closing, run, cls, pow, wrap, cap>>

Step(s, next) ==
    /\ sess' = [sess EXCEPT ![s] = next]
    /\ UNCHANGED <<dapiClient, clients, closing, run, cls, pow, wrap, cap>>

\* the call up to `await getBestBlockHeight()`: the call gets its client,
\* then onProgress, then the height fetch starts
Call(s) ==
    /\ sess[s].cfg.kind # "none"
    /\ sess[s].pc = "idle"
    /\ LET got == IF IsLock(s) THEN getClient(dapiClient, clients)
                              ELSE depositClient(s, dapiClient, clients)
           s1 == [sess[s] EXCEPT !.client = got.client]
       IN  /\ sess' = [sess EXCEPT ![s] =
                          IF s1.cfg.failAt = "start"
                          THEN Throw(s1, Rejection("progressError", "-", 0))
                          ELSE [s1 EXCEPT !.pc = "height"]]
           /\ dapiClient' = got.dapiClient
           /\ clients' = got.clients
    /\ UNCHANGED <<closing, run, cls, pow, wrap, cap>>

\* getBestBlockHeight fails: the async function throws
HeightFails(s) ==
    /\ sess[s].pc = "height"
    /\ Step(s, Throw(sess[s], Rejection("heightError", "-", 0)))

\* getBestBlockHeight returns: onProgress, then the promise executor arms the
\* timer and starts the subscribe call
HeightReturns(s) ==
    /\ sess[s].pc = "height"
    /\ Step(s, IF sess[s].cfg.failAt = "subscribing"
               THEN Throw(sess[s], Rejection("progressError", "-", 0))
               ELSE [sess[s] EXCEPT !.timeoutId = TRUE, !.timerPending = TRUE,
                                    !.pc = "subscribing"])

SubscribeReturns(s) ==
    /\ sess[s].pc = "subscribing"
    /\ Step(s, IF IsLock(s) THEN lockSubscribed(sess[s])
                            ELSE depositSubscribed(sess[s]))

SubscribeFails(s) ==
    /\ sess[s].pc = "subscribing"
    /\ Step(s, IF IsLock(s) THEN lockSubscribeFailed(sess[s])
                            ELSE depositSubscribeFailed(sess[s]))

OnReadyReturns(s) ==
    /\ sess[s].pc = "onReady"
    /\ Step(s, lockOnReadyDone(sess[s]))

OnReadyFails(s) ==
    /\ sess[s].pc = "onReady"
    /\ Step(s, lockOnReadyFailed(sess[s]))

\* a timer callback that does nothing before the stream is there
TimerFiresNeedsStream(s) ==
    /\ sess[s].timerPending
    /\ LET s1 == [sess[s] EXCEPT !.timerPending = FALSE, !.firedAt = sess[s].pc]
       IN  Step(s, IF ~s1.stream THEN s1
                   ELSE IF IsLock(s) THEN lockTimeout(s1) ELSE depositTimeout(s1))

\* the timer armed by setTimeout expires
TimerFires(s) ==
    /\ sess[s].timerPending
    /\ LET s1 == [sess[s] EXCEPT !.timerPending = FALSE, !.firedAt = sess[s].pc]
       IN  Step(s, IF IsLock(s) THEN lockTimeout(s1) ELSE depositTimeout(s1))

\* the open stream emits a 'data' event nobody listens to yet; the stream
\* keeps it for the first listener
EmitEarly(s) ==
    /\ sess[s].pc = "onReady"
    /\ sess[s].streamState = "open"
    /\ sess[s].emittedEarly < MaxBuffered
    /\ Step(s, [sess[s] EXCEPT !.emittedEarly = @ + 1])

CanDeliver(s) == sess[s].handlers /\ ~sess[s].ended

LockData(s, messages) ==
    /\ IsLock(s)
    /\ CanDeliver(s)
    /\ sess[s].handled < MaxEvents + sess[s].emittedEarly
    /\ Step(s, [lockOnData(sess[s], messages) EXCEPT !.handled = @ + 1])

DepositData(s, txList) ==
    /\ IsDeposit(s)
    /\ CanDeliver(s)
    /\ sess[s].handled < MaxEvents
    /\ Step(s, [depositOnData(sess[s], txList) EXCEPT !.handled = @ + 1])

StreamError(s) ==
    /\ CanDeliver(s)
    /\ sess[s].errors < MaxEvents
    /\ Step(s, [(IF IsLock(s) THEN lockOnError(sess[s])
                             ELSE depositOnError(sess[s]))
                EXCEPT !.errors = @ + 1])

StreamEnd(s) ==
    /\ CanDeliver(s)
    /\ Step(s, [(IF IsLock(s) THEN lockOnEnd(sess[s])
                             ELSE depositOnEnd(sess[s]))
                EXCEPT !.ended = TRUE])

\* a BridgeDAPIClient after its constructor, and withRetry not in use
NewBridge ==
    /\ dapiClient = 0 /\ clients = <<>> /\ closing = 0
    /\ run = NoRun /\ cls = NoEvaluation /\ pow = NoSearch
    /\ wrap = NoWrapper /\ cap = NoCap

Init ==
    /\ NewBridge
    /\ \E cfg \in LockConfigs \cup DepositConfigs :
        sess = [s \in Sessions |->
                    IF s = "a" THEN NewSession(cfg) ELSE NewSession(NoCall)]

\* the steps both operations have
CommonStep(s) ==
    \/ Call(s)
    \/ HeightFails(s)
    \/ HeightReturns(s)
    \/ SubscribeReturns(s)
    \/ SubscribeFails(s)
    \/ TimerFires(s)
    \/ StreamError(s)
    \/ StreamEnd(s)

LockStep(s) ==
    \/ OnReadyReturns(s)
    \/ OnReadyFails(s)
    \/ EmitEarly(s)
    \/ \E messages \in LockBatches : LockData(s, messages)

DepositStep(s) ==
    \E txList \in TxBatches : DepositData(s, txList)

Next ==
    \E s \in Sessions : CommonStep(s) \/ LockStep(s) \/ DepositStep(s)

\* one call, of either operation
Spec == Init /\ [][Next]_vars

\* one call with a runtime that runs the callback of a timer that stays
\* armed; nothing is assumed of the stream, of subscribe or of onReady
TimerNext ==
    \E s \in Sessions :
        \/ CommonStep(s)
        \/ OnReadyReturns(s)
        \/ OnReadyFails(s)
        \/ EmitEarly(s)
        \/ \E messages \in {<<1>>, <<3>>} : LockData(s, messages)
        \/ \E txList \in {<<[ok |-> TRUE, outputs |->
                                <<[p2pkh |-> TRUE, hash |-> h, satoshis |-> 1]>>]>> :
                                h \in Hashes} : DepositData(s, txList)
TimerSpec ==
    Init /\ [][TimerNext]_vars /\ \A s \in Sessions : WF_vars(TimerFires(s))

LockInit ==
    /\ NewBridge
    /\ \E cfg \in LockConfigs :
        sess = [s \in Sessions |->
                    IF s = "a" THEN NewSession(cfg) ELSE NewSession(NoCall)]

LockNext ==
    \E s \in Sessions : CommonStep(s) \/ LockStep(s)

\* one call of waitForInstantSendLock
LockSpec == LockInit /\ [][LockNext]_vars

DepositInit ==
    /\ NewBridge
    /\ \E cfg \in DepositConfigs :
        sess = [s \in Sessions |->
                    IF s = "a" THEN NewSession(cfg) ELSE NewSession(NoCall)]

DepositNext ==
    \E s \in Sessions : CommonStep(s) \/ DepositStep(s)

\* one call of waitForDeposit
DepositSpec == DepositInit /\ [][DepositNext]_vars

(***************************************************************************)
(* Two calls on one BridgeDAPIClient, one after the other or overlapping,  *)
(* and calls of its disconnect().                                          *)
(***************************************************************************)
PairConfigs ==
    {cfg \in LockConfigs \cup DepositConfigs :
        /\ cfg.failAt = "never" /\ ~cfg.hasOnReady
        /\ cfg.txid \in {"1", "-"} /\ cfg.pubKeyHash = 1 /\ cfg.minAmount = 1
        /\ cfg.timeoutMs = (IF cfg.kind = "lock" THEN LockTimeoutDefault
                                                 ELSE DepositTimeoutDefault)}

\* one lock message, of the awaited transaction or of another
PairLockBatches == {<<1>>, <<3>>}

\* one transaction with one P2PKH output, to the awaited hash or to another
PairTxBatches ==
    {<<[ok |-> TRUE, outputs |-> <<[p2pkh |-> TRUE, hash |-> h, satoshis |-> 1]>>]>> :
        h \in Hashes}

\* disconnect() up to `await this.dapiClient.disconnect()`
Disconnect ==
    /\ dapiClient # 0
    /\ closing < MaxClosing
    /\ closing' = closing + 1
    /\ UNCHANGED <<sess, dapiClient, clients, run, cls, pow, wrap, cap>>

\* the client's disconnect() settled, either way: this.dapiClient = null
DisconnectReturns ==
    /\ closing > 0
    /\ closing' = closing - 1
    /\ dapiClient' = 0
    /\ UNCHANGED <<sess, clients, run, cls, pow, wrap, cap>>

PairInit ==
    /\ NewBridge
    /\ sess \in {[s \in Sessions |-> NewSession(f[s])] : f \in [Sessions -> PairConfigs]}

PairStep(s) ==
    \/ Call(s)
    \/ HeightFails(s)
    \/ HeightReturns(s)
    \/ SubscribeReturns(s)
    \/ SubscribeFails(s)
    \/ TimerFires(s)
    \/ StreamEnd(s)
    \/ \E messages \in PairLockBatches : LockData(s, messages)
    \/ \E txList \in PairTxBatches : DepositData(s, txList)

PairNext ==
    \/ \E s \in Sessions : PairStep(s)
    \/ Disconnect
    \/ DisconnectReturns

PairSpec == PairInit /\ [][PairNext]_vars

(***************************************************************************)
(* One invocation of withRetry.                                            *)
(***************************************************************************)
RetryStep(next) ==
    /\ run' = next
    /\ UNCHANGED <<sess, dapiClient, clients, closing, cls, pow, wrap, cap>>

\* withRetry(fn, options) up to the first `await fn()`
WithRetry ==
    /\ run.pc = "idle"
    /\ RetryStep(loopHead(run))

FnReturns(v) ==
    /\ run.pc = "fn"
    /\ RetryStep(fnReturned(run, v))

FnFails(error, k) ==
    /\ run.pc = "fn"
    /\ RetryStep(fnFailed(run, error, k))

DelayElapses ==
    /\ run.pc = "waiting"
    /\ RetryStep(delayElapsed(run))

RetryInit ==
    /\ dapiClient = 0 /\ clients = <<>> /\ closing = 0
    /\ cls = NoEvaluation /\ pow = NoSearch
    /\ wrap = NoWrapper /\ cap = NoCap
    /\ sess = [s \in Sessions |-> NewSession(NoCall)]
    /\ \E options \in RetryOptions : run = NewRun(options)

RetryNext ==
    \/ WithRetry
    \/ \E v \in Values : FnReturns(v)
    \/ \E error \in Errors, k \in 0..(RandomSteps - 1) : FnFails(error, k)
    \/ DelayElapses

RetrySpec == RetryInit /\ [][RetryNext]_vars

(***************************************************************************)
(* One evaluation of the error classifier.                                 *)
(***************************************************************************)
Evaluate(pc, result) ==
    /\ cls.pc = "called"
    /\ cls' = [cls EXCEPT !.pc = pc, !.result = result]
    /\ UNCHANGED <<sess, dapiClient, clients, closing, run, pow, wrap, cap>>

ExtractErrorMessage == Evaluate("extracted", extractErrorMessage(cls.heap, cls.error))
IsRetryableError == Evaluate("classified", isRetryableError(cls.heap, cls.error))

ClassifierInit ==
    /\ dapiClient = 0 /\ clients = <<>> /\ closing = 0
    /\ sess = [s \in Sessions |-> NewSession(NoCall)]
    /\ run = NoRun /\ pow = NoSearch
    /\ wrap = NoWrapper /\ cap = NoCap
    /\ \/ \E failure \in Primitives \cup Carriers : cls = NewEvaluation(failure)
       \/ \E class \in {"Object", "Error"},
             message \in MessageValues, msg \in MessageValues,
             error \in ErrorValues, cause \in CauseValues,
             name \in NameValues, code \in CodeValues, kind \in KindValues :
              LET props == [message |-> message, msg |-> msg, error |-> error,
                            cause |-> cause, name |-> name, code |-> code,
                            kind |-> kind]
              IN  \E o \in IF Refers(props, 2) THEN Nested ELSE {Obj("Object", NoProps)} :
                      cls = NewEvaluation(Structure(class, props, o))
ClassifierNext == ExtractErrorMessage \/ IsRetryableError
ClassifierSpec == ClassifierInit /\ [][ClassifierNext]_vars

(***************************************************************************)
(* One run of solveChallenge, and one evaluation of meetsTarget.           *)
(***************************************************************************)
SolverStep(next) ==
    /\ pow' = next
    /\ UNCHANGED <<sess, dapiClient, clients, closing, run, cls, wrap, cap>>

SolveChallenge == pow.pc = "called" /\ SolverStep(whileHead(pow))
Digested == pow.pc = "digest" /\ SolverStep(digested(pow))
Resumed == pow.pc = "yielded" /\ SolverStep(whileHead(pow))

SolverInit ==
    /\ dapiClient = 0 /\ clients = <<>> /\ closing = 0
    /\ sess = [s \in Sessions |-> NewSession(NoCall)]
    /\ run = NoRun /\ cls = NoEvaluation
    /\ wrap = NoWrapper /\ cap = NoCap
    /\ \E challenge \in Challenges, difficulty \in ChallengeDifficulties :
           \E sha256 \in [Candidates(challenge) -> DigestValues] :
               pow = NewSearch(challenge, difficulty, sha256)
SolverNext == SolveChallenge \/ Digested \/ Resumed
SolverSpec == SolverInit /\ [][SolverNext]_vars /\ WF_vars(SolverNext)

MeetsTarget ==
    /\ pow.pc = "asked"
    /\ SolverStep([pow EXCEPT !.pc = "answered",
                              !.meets = meetsTarget(pow.hashHex, pow.difficulty)])
TargetInit ==
    /\ dapiClient = 0 /\ clients = <<>> /\ closing = 0
    /\ sess = [s \in Sessions |-> NewSession(NoCall)]
    /\ run = NoRun /\ cls = NoEvaluation
    /\ wrap = NoWrapper /\ cap = NoCap
    /\ \E hashHex \in HashValues, difficulty \in Difficulties :
           pow = [pc |-> "asked", hashHex |-> hashHex,
                  difficulty |-> difficulty, meets |-> FALSE]
TargetNext == MeetsTarget
TargetSpec == TargetInit /\ [][TargetNext]_vars

(***************************************************************************)
(* One call of a wrapper made by createRetryWrapper.                       *)
(***************************************************************************)
CallWrapper(options) ==
    /\ wrap.pc = "created"
    /\ wrap' = createRetryWrapper(wrap, options)
    /\ run' = NewRun(destructure(wrap'.passed))
    /\ UNCHANGED <<sess, dapiClient, clients, closing, cls, pow, cap>>

WrapperInit ==
    /\ dapiClient = 0 /\ clients = <<>> /\ closing = 0
    /\ sess = [s \in Sessions |-> NewSession(NoCall)]
    /\ run = NoRun /\ cls = NoEvaluation /\ pow = NoSearch /\ cap = NoCap
    /\ \E defaultOptions \in OptionsObjects : wrap = NewWrapper(defaultOptions)
WrapperNext ==
    \/ \E options \in OptionsObjects : CallWrapper(options)
    \/ wrap.pc = "called" /\ WithRetry
WrapperSpec == WrapperInit /\ [][WrapperNext]_vars

(***************************************************************************)
(* withRetry under createRetryOptionsWithCallback(updateRetryStatus, base) *)
(* and, for the same outcomes of fn and of Math.random, withRetry under    *)
(* base.                                                                   *)
(***************************************************************************)
CallbackStep(next, baseNext) ==
    /\ wrap.pc = "callback"
    /\ run' = next
    /\ wrap' = [wrap EXCEPT
                   !.baseRun = IF @.pc = run.pc THEN baseNext ELSE @,
                   !.sink = @ \o Statuses(SubSeq(next.log, Len(run.log) + 1,
                                                 Len(next.log)))]
    /\ UNCHANGED <<sess, dapiClient, clients, closing, cls, pow, cap>>

CallbackWithRetry ==
    /\ run.pc = "idle"
    /\ CallbackStep(loopHead(run), loopHead(wrap.baseRun))

CallbackFnReturns(v) ==
    /\ run.pc = "fn"
    /\ CallbackStep(fnReturned(run, v), fnReturned(wrap.baseRun, v))

CallbackFnFails(error, k) ==
    /\ run.pc = "fn"
    /\ CallbackStep(fnFailed(run, error, k), fnFailed(wrap.baseRun, error, k))

CallbackDelayElapses ==
    /\ run.pc = "waiting"
    /\ CallbackStep(delayElapsed(run), delayElapsed(wrap.baseRun))

CallbackInit ==
    /\ dapiClient = 0 /\ clients = <<>> /\ closing = 0
    /\ sess = [s \in Sessions |-> NewSession(NoCall)]
    /\ cls = NoEvaluation /\ pow = NoSearch /\ cap = NoCap
    /\ \E baseOptions \in BaseOptions :
          /\ wrap = NewCallback(baseOptions)
          /\ run = NewRun(destructure(createRetryOptionsWithCallback(baseOptions)))
CallbackNext ==
    \/ CallbackWithRetry
    \/ \E v \in Values : CallbackFnReturns(v)
    \/ \E error \in Errors, k \in 0..(RandomSteps - 1) : CallbackFnFails(error, k)
    \/ CallbackDelayElapses
CallbackSpec == CallbackInit /\ [][CallbackNext]_vars

(***************************************************************************)
(* One call of solveCap; solveChallenge runs in `pow` between the two      *)
(* requests.                                                               *)
(***************************************************************************)
CapStep(next) ==
    /\ cap' = next
    /\ UNCHANGED <<sess, dapiClient, clients, closing, run, cls, pow, wrap>>

SolveCap == cap.pc = "idle" /\ CapStep(solveCap(cap))

\* the challenge fetch settles; on a good response solveChallenge is called
\* and runs up to its first digest
ChallengeResponds(status) ==
    /\ cap.pc = "challenge"
    /\ LET response == IF status = "rejected" THEN Rejected
                       ELSE Response(status = "200", status, cap.server)
       IN  /\ cap' = challengeResponded(cap, response)
           /\ pow' = IF cap'.pc = "solving"
                     THEN whileHead(NewSearch(response.body.challenge,
                                              response.body.difficulty, cap.sha256))
                     ELSE pow
    /\ UNCHANGED <<sess, dapiClient, clients, closing, run, cls, wrap>>

CapSolving == cap.pc = "solving" /\ (Digested \/ Resumed)

SolveChallengeReturns ==
    /\ cap.pc = "solving" /\ pow.pc = "returned"
    /\ CapStep(solved(cap, pow.result))

SolveChallengeThrows ==
    /\ cap.pc = "solving" /\ pow.pc = "threw"
    /\ CapStep(capThrow(cap, pow.result.tag))

VerifyResponds(response) ==
    /\ cap.pc = "verify"
    /\ CapStep(verifyResponded(cap, response))

CapInit ==
    /\ dapiClient = 0 /\ clients = <<>> /\ closing = 0
    /\ sess = [s \in Sessions |-> NewSession(NoCall)]
    /\ run = NoRun /\ cls = NoEvaluation /\ wrap = NoWrapper
    /\ pow = NoSearch
    /\ \E challenge \in Challenges, difficulty \in CapDifficulties :
           \E sha256 \in [Candidates(challenge) -> DigestValues] :
               cap = NewCap(challenge, difficulty, sha256)
CapNext ==
    \/ SolveCap
    \/ \E status \in ChallengeStatuses : ChallengeResponds(status)
    \/ CapSolving
    \/ SolveChallengeReturns
    \/ SolveChallengeThrows
    \/ \E response \in VerifyResponses : VerifyResponds(response)
CapSpec == CapInit /\ [][CapNext]_vars

(***************************************************************************)
(* Properties of waitForInstantSendLock and waitForDeposit.                *)
(***************************************************************************)
Locks == {s \in Sessions : IsLock(s)}
Deposits == {s \in Sessions : IsDeposit(s)}

\* C1: onReady is invoked only once subscribe has returned a stream, and the
\* 'data' handler is not attached and handles no message, buffered or later,
\* before onReady has completed: no message is handled before or during onReady.
C1_OnReadyBeforeMessages ==
    \A s \in Locks :
        /\ sess[s].onReadyCalls > 0 => sess[s].streamState # "none"
        /\ sess[s].onReadyState \in {"running", "failed"} =>
               ~sess[s].handlers /\ sess[s].handled = 0
        /\ sess[s].cfg.hasOnReady /\ (sess[s].handlers \/ sess[s].handled > 0) =>
               sess[s].onReadyState = "done"

\* a session with onReady that handled a buffered and a later message
C1_Witness ==
    \E s \in Locks :
        /\ sess[s].cfg.hasOnReady /\ sess[s].onReadyState = "done"
        /\ sess[s].emittedEarly > 0 /\ sess[s].handled > sess[s].emittedEarly

\* C2: the promise of waitForInstantSendLock settles exactly once: resolved
\* goes from false to true once and stays, resolve/reject is called exactly
\* when resolved is set, at most once, and a settled outcome never changes.
C2_SettledOnce ==
    [][\A s \in Locks :
        /\ sess[s].resolved => sess'[s].resolved
        /\ sess'[s].settleCalls <= 1
        /\ sess'[s].resolved <=> sess'[s].settleCalls = 1
        /\ sess'[s].resolved => sess'[s].outcome.status # "pending"
        /\ sess[s].outcome.status # "pending" => sess'[s].outcome = sess[s].outcome]_vars

\* a lock resolved the call and the stream ended afterwards
C2_Witness ==
    \E s \in Locks :
        /\ sess[s].outcome.tag = "bytes" /\ sess[s].ended
        /\ sess[s].settleCalls = 1

\* C3: once a waitForInstantSendLock session is terminal and its subscribe
\* call has returned a stream, that stream has been cancelled and the timer
\* is cleared.
C3_ReleasedWhenTerminal ==
    \A s \in Locks :
        sess[s].resolved /\ sess[s].streamState # "none" =>
            sess[s].streamState = "cancelled" /\ ~sess[s].timerPending

\* C4: in one session stream.cancel() and clearTimeout are each called at most
\* once, and cleanup is idempotent: one more cleanup() in any reachable state
\* of the session still leaves each called at most once.
C4_CleanupIdempotent ==
    /\ \A s \in Locks \cup Deposits :
            sess[s].cancelCalls <= 1 /\ sess[s].clearCalls <= 1
    /\ \A s \in Locks :
            /\ cleanup(cleanup(sess[s])) = cleanup(sess[s])
            /\ cleanup(cleanup(sess[s])).cancelCalls <= 1
            /\ cleanup(cleanup(sess[s])).clearCalls <= 1
    /\ \A s \in Deposits :
            /\ depositCleanup(depositCleanup(sess[s])).cancelCalls <= 1
            /\ depositCleanup(depositCleanup(sess[s])).clearCalls <= 1

\* a session whose stream was cancelled and timer cleared, and whose stream
\* ended after that: a second terminal event reached the session
C4_Witness ==
    \E s \in Locks \cup Deposits :
        /\ sess[s].resolved /\ sess[s].ended /\ sess[s].outcome.tag \in {"bytes", "deposit"}
        /\ sess[s].cancelCalls = 1 /\ sess[s].clearCalls = 1

FirstMatch(messages, txid) ==
    LET hits == {i \in 1..Len(messages) : InstantLockFromBuffer(messages[i]) = txid}
    IN  IF hits = {} THEN 0 ELSE CHOOSE i \in hits : \A j \in hits : i <= j

\* C6: waitForInstantSendLock resolves only with the bytes of a lock of the
\* target txid; whenever the 'data' handler can run on an unresolved session,
\* a list holding no lock of the target leaves the call pending and a list
\* holding one resolves the call with the bytes of the first such lock
\* (onProgress returning normally).
C6_ResolvesWithFirstMatch ==
    \A s \in Locks :
        /\ sess[s].outcome.status = "resolved" =>
               /\ sess[s].outcome.tag = "bytes"
               /\ InstantLockFromBuffer(sess[s].outcome.n) = sess[s].cfg.txid
        /\ CanDeliver(s) /\ ~sess[s].resolved =>
               \A messages \in LockBatches :
                   LET after == lockOnData(sess[s], messages)
                       k == FirstMatch(messages, sess[s].cfg.txid)
                   IN  /\ k = 0 => ~after.resolved /\ after.outcome = Pending
                       /\ k > 0 /\ sess[s].cfg.failAt # "data" =>
                              /\ after.resolved
                              /\ after.outcome = LockResult(messages[k])

\* the call resolved after its handler had examined a lock of another txid
C6_Witness ==
    \E s \in Locks : sess[s].sawOther /\ sess[s].outcome.tag = "bytes"

\* C7: when the timer fires on an unresolved session, in whichever phase, the
\* call is rejected with the timeout error carrying the txid and the timeout;
\* on a resolved session the firing changes nothing.
C7_TimeoutRejects ==
    [][\A s \in Locks :
        sess[s].firedAt = "none" /\ sess'[s].firedAt # "none" =>
            /\ sess'[s].firedAt \in {"subscribing", "onReady", "listening"}
            /\ IF sess[s].resolved
               THEN sess'[s] = [sess[s] EXCEPT !.timerPending = FALSE,
                                               !.firedAt = sess[s].pc]
               ELSE /\ sess'[s].resolved
                    /\ sess'[s].outcome =
                           Rejection("timeout", sess[s].cfg.txid, sess[s].cfg.timeoutMs)]_vars

\* the timer fired while onReady was being awaited and rejected the call
C7_Witness ==
    \E s \in Locks :
        /\ sess[s].firedAt = "onReady"
        /\ sess[s].outcome = Rejection("timeout", sess[s].cfg.txid, sess[s].cfg.timeoutMs)

\* C8: an 'end' event on an unresolved waitForInstantSendLock session rejects
\* the call with the "stream ended" error naming the txid; on a resolved
\* session it changes nothing.
C8_EndRejects ==
    [][\A s \in Locks :
        ~sess[s].ended /\ sess'[s].ended =>
            IF sess[s].resolved
            THEN sess'[s] = [sess[s] EXCEPT !.ended = TRUE]
            ELSE /\ sess'[s].resolved
                 /\ sess'[s].outcome = Rejection("streamEnded", sess[s].cfg.txid, 0)]_vars

\* the stream ended first and rejected the call
C8_Witness ==
    \E s \in Locks :
        sess[s].ended /\ sess[s].outcome = Rejection("streamEnded", sess[s].cfg.txid, 0)

\* C9: an 'error' event, in waitForInstantSendLock and in waitForDeposit,
\* changes nothing of the session (resolved, timer, stream, promise): every
\* step the session could take before it, it can take after it, so a call
\* that has handled error events is still resolved by a later lock.
C9_ErrorEventsTolerated ==
    [][\A s \in Locks \cup Deposits :
        sess'[s].errors # sess[s].errors =>
            sess'[s] = [sess[s] EXCEPT !.errors = @ + 1]]_vars

\* a call resolved by a lock after its stream had reported errors
C9_Witness ==
    \E s \in Locks : sess[s].outcome.tag = "bytes" /\ sess[s].errorsAtSettle > 0

\* the messages of a list that decode
Decodable(messages) ==
    SelectSeq(messages, LAMBDA b : InstantLockFromBuffer(b) # Thrown)

\* C10: a lock message that does not decode is skipped: whenever the 'data'
\* handler can run, it does to the session what it does on the same list
\* without the undecodable messages, so the messages after one are examined;
\* a list of only undecodable messages leaves the session as it is, and
\* decoding never throws out of the handler's loop.
C10_UndecodableSkipped ==
    \A s \in Locks :
        CanDeliver(s) =>
            \A messages \in LockBatches :
                LET after == lockOnData(sess[s], messages)
                IN  /\ [after EXCEPT !.sawBad = FALSE] =
                           [lockOnData(sess[s], Decodable(messages)) EXCEPT !.sawBad = FALSE]
                    /\ Decodable(messages) = <<>> =>
                           after = [sess[s] EXCEPT
                                       !.sawBad = @ \/ (messages # <<>> /\ ~sess[s].resolved)]
                    /\ after.swallowed > sess[s].swallowed => sess[s].cfg.failAt = "data"

\* the call resolved after its handler had skipped an undecodable message
C10_Witness ==
    \E s \in Locks : sess[s].sawBad /\ sess[s].outcome.tag = "bytes"

\* C11: waitForDeposit does not reject on a timeout or a stream end: when the
\* timer fires or the stream ends on an unresolved session, the call resolves
\* with {utxo: null, totalAmount: 0, timedOut: true}; on a resolved session
\* the outcome stays; a rejected call never got as far as the timer.
C11_TimeoutAndEndResolve ==
    [][\A s \in Deposits :
        /\ (sess[s].firedAt = "none" /\ sess'[s].firedAt # "none")
              \/ (~sess[s].ended /\ sess'[s].ended) =>
               IF sess[s].resolved
               THEN sess'[s].outcome = sess[s].outcome
               ELSE /\ sess'[s].resolved
                    /\ sess'[s].outcome = DepositResult(NullUtxo, 0, TRUE)
        /\ sess'[s].outcome.status = "rejected" =>
               /\ ~sess'[s].resolved /\ ~sess'[s].timeoutId
               /\ sess'[s].firedAt = "none" /\ ~sess'[s].ended]_vars

\* the timer fired after the handler had seen transactions, none with a
\* qualifying output, and the call resolved with the null result
C11_Witness ==
    \E s \in Deposits :
        /\ sess[s].firedAt = "listening" /\ sess[s].handled > 0
        /\ sess[s].outcome = DepositResult(NullUtxo, 0, TRUE)

\* C12: waitForDeposit never throws: with callbacks that return normally,
\* whatever the height fetch and the subscribe call do, the call is never
\* rejected, and once the height fetch or the subscribe call has failed it
\* is resolved with {utxo: null, totalAmount: 0, timedOut: true}.
C12_NeverThrows ==
    \A s \in Deposits :
        sess[s].cfg.failAt = "never" =>
            /\ sess[s].outcome.status # "rejected"
            /\ sess[s].pc = "exited" =>
                   sess[s].outcome = DepositResult(NullUtxo, 0, TRUE)

\* the outputs of a transaction that pay at least min to hash (1-based)
Qualifying(tx, hash, min) ==
    IF ~tx.ok THEN {}
    ELSE {i \in 1..Len(tx.outputs) :
            /\ tx.outputs[i].p2pkh /\ tx.outputs[i].hash = hash
            /\ tx.outputs[i].satoshis >= min}

\* the UTXO of output i of a transaction
UtxoAt(tx, i) ==
    [isNull |-> FALSE, txid |-> TxHash(tx.outputs), vout |-> i - 1,
     satoshis |-> tx.outputs[i].satoshis,
     scriptPubKey |-> ScriptHex(tx.outputs[i]), confirmations |-> 0]

\* C13: whenever the 'data' handler of waitForDeposit can run on an
\* unresolved session, a list whose first transaction with a P2PKH output
\* paying at least minAmount to the target hash is at position k resolves the
\* call with such an output of that transaction as the UTXO, totalAmount its
\* amount and timedOut false, whatever other outputs the transaction has
\* (onProgress returning normally).
C13_QualifyingOutputResolves ==
    \A s \in Deposits :
        CanDeliver(s) /\ ~sess[s].resolved /\ sess[s].cfg.failAt # "data" =>
            \A txList \in TxBatches :
                LET cfg == sess[s].cfg
                    hits == {k \in 1..Len(txList) :
                               Qualifying(txList[k], cfg.pubKeyHash, cfg.minAmount) # {}}
                    after == depositOnData(sess[s], txList)
                IN  hits # {} =>
                        LET k == CHOOSE i \in hits : \A j \in hits : i <= j
                        IN  /\ after.resolved
                            /\ \E i \in Qualifying(txList[k], cfg.pubKeyHash, cfg.minAmount) :
                                   after.outcome =
                                       DepositResult(UtxoAt(txList[k], i),
                                                     txList[k].outputs[i].satoshis, FALSE)

\* C14: on every exit path of a waitForDeposit call (success, timeout, stream
\* end, subscribe failure, height-fetch failure) the client the call created
\* has been asked to disconnect (callbacks returning normally).
C14_ClientDisposedOnExit ==
    \A s \in Deposits :
        sess[s].cfg.failAt = "never" /\ sess[s].outcome.status # "pending" =>
            sess[s].disconnectCalls >= 1

\* C15: a waitForDeposit call uses a client constructed by that call: it is
\* never a client getClient() constructed (so never the cached one), the call
\* leaves the cache as it is, and two waitForDeposit calls, one after the
\* other or overlapping, never have the same client.
C15_DepositClientPerCall ==
    [][\A s \in Deposits :
        /\ sess[s].pc = "idle" /\ sess'[s].pc # "idle" =>
               /\ sess'[s].client \notin 1..Len(clients)
               /\ dapiClient' = dapiClient
        /\ sess'[s].client # 0 =>
               /\ clients'[sess'[s].client] = s
               /\ sess'[s].client # dapiClient'
               /\ \A t \in Sessions \ {s} : sess'[t].client # sess'[s].client
        /\ sess[s].client # 0 => sess'[s].client = sess[s].client]_vars

\* a waitForDeposit call started while the cache held the client of a
\* waitForInstantSendLock call still in flight
C15_Witness ==
    \E s \in Deposits, t \in Locks :
        /\ sess[s].client # 0 /\ sess[s].pc = "listening"
        /\ dapiClient # 0 /\ sess[t].client = dapiClient /\ sess[t].pc = "listening"
        /\ clients[1] = "getClient"

(***************************************************************************)
(* Properties of withRetry.                                                *)
(***************************************************************************)
\* the events of one kind in the invocation's log, in order
LogOf(ev) == SelectSeq(run.log, LAMBDA x : x.ev = ev)

\* every failure so far is one the policy's predicate calls retryable
AllRetryable == \A i \in 1..Len(LogOf("fail")) : LogOf("fail")[i].err \in run.options.shouldRetry

\* C16: the operation is never invoked more than maxAttempts times, and when
\* every failure is retryable (maxAttempts >= 1, onRetry returning normally)
\* a failed withRetry has invoked it exactly maxAttempts times, attempt
\* 0 .. maxAttempts - 1, and fails with the failure of the last attempt.
C16_ExhaustsAttempts ==
    LET calls == LogOf("fn")
        fails == LogOf("fail")
    IN  /\ Len(calls) <= run.options.maxAttempts
        /\ \A i \in 1..Len(calls) : calls[i].n = i - 1
        /\ (/\ run.status = "threw" /\ run.options.maxAttempts >= 1
            /\ run.options.onRetry # "throws" /\ AllRetryable) =>
                /\ Len(calls) = run.options.maxAttempts
                /\ Len(fails) = run.options.maxAttempts
                /\ run.result = fails[Len(fails)].err
                /\ fails[Len(fails)].n = run.options.maxAttempts - 1

\* three attempts failed with retryable failures, the last one different from
\* the one before, and withRetry failed
C16_Witness ==
    /\ run.status = "threw" /\ run.options.maxAttempts = 3 /\ AllRetryable
    /\ Len(LogOf("fail")) = 3
    /\ LogOf("fail")[2].err # LogOf("fail")[3].err

\* C17: a failure the predicate calls non-retryable ends withRetry at once:
\* it is the last thing that happens in the invocation and it is the failure
\* withRetry throws; when it is the first failure, the operation was invoked
\* once, whatever maxAttempts, and there was no onRetry call and no delay.
C17_NonRetryablePropagates ==
    /\ \A i \in 1..Len(run.log) :
           run.log[i].ev = "fail" /\ run.log[i].err \notin run.options.shouldRetry =>
               /\ i = Len(run.log)
               /\ run.pc = "done" /\ run.status = "threw"
               /\ run.result = run.log[i].err
    /\ (/\ Len(LogOf("fail")) >= 1
        /\ LogOf("fail")[1].err \notin run.options.shouldRetry) =>
            /\ Len(LogOf("fn")) = 1
            /\ LogOf("onRetry") = <<>> /\ LogOf("sleep") = <<>>

\* a policy of three attempts with an onRetry callback, and the first
\* failure was non-retryable
C17_Witness ==
    /\ run.options.maxAttempts = 3 /\ run.options.onRetry = "returns"
    /\ run.status = "threw" /\ Len(LogOf("fn")) = 1
    /\ run.result \notin run.options.shouldRetry

\* min(baseDelay * 2^i, maxDelay) of the invocation's policy, in halves of a
\* millisecond
Capped(i) == Min(run.options.baseDelayMs * 2 ^ i, run.options.maxDelayMs)

\* C18: the delay d waited after a retryable failure on attempt i satisfies
\* min(baseDelay * 2^i, maxDelay) <= d <= 1.5 * min(baseDelay * 2^i, maxDelay),
\* so d <= 1.5 * maxDelay, for every baseDelay >= 0 and maxDelay >= baseDelay.
C18_DelayWithinBounds ==
    \A j \in 1..Len(LogOf("sleep")) :
        LET d == LogOf("sleep")[j].n
            i == LogOf("sleep")[j].m
        IN  run.options.maxDelayMs >= run.options.baseDelayMs =>
                /\ Capped(i) <= 2 * d
                /\ 4 * d <= 3 * Capped(i)
                /\ 4 * d <= 3 * run.options.maxDelayMs

\* C18 as amended: the delay after the failure on attempt i is the j-th
\* delay for i = j - 1, and it is an integer d with
\* floor(c) <= d <= 1.5 * c for c = min(baseDelay * 2^i, maxDelay), so
\* d <= 1.5 * maxDelay; c <= d when c is a whole number of milliseconds.
C18_DelayWithinFlooredBounds ==
    \A j \in 1..Len(LogOf("sleep")) :
        LET d == LogOf("sleep")[j].n
            i == LogOf("sleep")[j].m
        IN  /\ i = j - 1
            /\ Capped(i) \div 2 <= d
            /\ 4 * d <= 3 * Capped(i)
            /\ 4 * d <= 3 * run.options.maxDelayMs
            /\ Capped(i) % 2 = 0 => Capped(i) <= 2 * d

\* the second delay of an invocation was cut by maxDelay and had jitter
C18_Witness ==
    /\ Len(LogOf("sleep")) >= 2
    /\ run.options.baseDelayMs * 2 > run.options.maxDelayMs
    /\ Capped(1) = run.options.maxDelayMs
    /\ 2 * LogOf("sleep")[2].n > Capped(1)

\* C19: with an onRetry that returns, a retryable failure on a non-final
\* attempt i is followed at once by one call onRetry(i + 1, maxAttempts,
\* failure) and then by the start of the delay; an attempt after the first
\* starts only when a delay has elapsed; onRetry and delays occur nowhere
\* else, so a finished invocation of k attempts made k - 1 onRetry calls and
\* waited k - 1 delays (without onRetry: k - 1 delays and no call).
C19_OnRetryThenDelayBetweenAttempts ==
    LET log == run.log
        given == run.options.onRetry = "returns"
    IN  run.options.onRetry # "throws" =>
        /\ \A p \in 1..Len(log) :
            /\ (/\ log[p].ev = "fail" /\ log[p].err \in run.options.shouldRetry
                /\ log[p].n < run.options.maxAttempts - 1) =>
                    /\ Len(log) >= (IF given THEN p + 2 ELSE p + 1)
                    /\ given => log[p + 1] = Event("onRetry", log[p].n + 1,
                                                   run.options.maxAttempts, log[p].err)
                    /\ log[IF given THEN p + 2 ELSE p + 1].ev = "sleep"
            /\ log[p].ev = "onRetry" =>
                    /\ given /\ p > 1 /\ log[p - 1].ev = "fail"
                    /\ log[p - 1].err \in run.options.shouldRetry
                    /\ log[p - 1].n < run.options.maxAttempts - 1
            /\ log[p].ev = "sleep" =>
                    /\ p > 1 /\ log[p - 1].ev = (IF given THEN "onRetry" ELSE "fail")
                    /\ p < Len(log) => log[p + 1].ev = "wake"
            /\ log[p].ev = "wake" => p > 1 /\ log[p - 1].ev = "sleep"
            /\ log[p].ev = "fn" /\ p > 1 => log[p - 1].ev = "wake"
        /\ run.pc = "done" /\ run.options.maxAttempts >= 1 =>
            /\ Len(LogOf("onRetry")) = (IF given THEN Len(LogOf("fn")) - 1 ELSE 0)
            /\ Len(LogOf("sleep")) = Len(LogOf("fn")) - 1
            /\ Len(LogOf("wake")) = Len(LogOf("fn")) - 1

\* an invocation of three attempts that notified onRetry of two different
\* failures
C19_Witness ==
    /\ run.pc = "done" /\ Len(LogOf("fn")) = 3 /\ Len(LogOf("onRetry")) = 2
    /\ LogOf("onRetry")[1].err # LogOf("onRetry")[2].err

\* C20: a successful attempt is the last thing that happens in an
\* invocation: withRetry has returned that attempt's value, and no attempt,
\* onRetry call or delay follows it; withRetry returns only that way.
C20_SuccessReturnsAtOnce ==
    /\ \A p \in 1..Len(run.log) :
           run.log[p].ev = "ok" =>
               /\ p = Len(run.log)
               /\ run.pc = "done" /\ run.status = "returned"
               /\ run.result = run.log[p].err
               /\ p > 1 /\ run.log[p - 1] = Event("fn", run.log[p].n, 0, "-")
    /\ run.status = "returned" =>
           /\ run.log # <<>> /\ run.log[Len(run.log)].ev = "ok"
           /\ run.result \in Values

\* the third attempt succeeded after two retries
C20_Witness ==
    /\ run.status = "returned" /\ Len(LogOf("fn")) = 3
    /\ Len(LogOf("sleep")) = 2 /\ run.options.maxAttempts = 3

\* C21: when onRetry throws, its call is the last thing that happens in the
\* invocation: withRetry has failed with onRetry's failure, no delay was
\* started and the operation is not attempted again; withRetry fails with
\* onRetry's failure only that way.
C21_OnRetryFailureAborts ==
    /\ run.options.onRetry = "throws" =>
           /\ \A p \in 1..Len(run.log) :
                  run.log[p].ev = "onRetry" =>
                      /\ p = Len(run.log)
                      /\ run.pc = "done" /\ run.status = "threw"
                      /\ run.result = OnRetryError
           /\ LogOf("sleep") = <<>> /\ LogOf("wake") = <<>>
           /\ Len(LogOf("fn")) <= 1
    /\ run.result = OnRetryError =>
           /\ run.options.onRetry = "throws" /\ run.status = "threw"
           /\ run.log[Len(run.log)].ev = "onRetry"

\* a policy of three attempts whose onRetry threw at the first retry
C21_Witness ==
    /\ run.options.maxAttempts = 3 /\ run.options.onRetry = "throws"
    /\ run.status = "threw" /\ run.result = OnRetryError
    /\ Len(LogOf("fn")) = 1 /\ Len(LogOf("onRetry")) = 1

\* the onProgress callback of the call has thrown
ProgressThrew(s) ==
    \/ sess[s].cfg.failAt = "start" /\ sess[s].pc # "idle"
    \/ /\ sess[s].cfg.failAt = "subscribing" /\ sess[s].pc = "exited"
       /\ sess[s].outcome.tag # "heightError"
    \/ sess[s].cfg.failAt = "listening" /\ sess[s].streamState # "none"
    \/ sess[s].cfg.failAt = "data" /\ sess[s].swallowed > 0

\* C22: once onProgress has thrown, at whichever of its call sites, in a
\* call that no timeout or stream end had settled before, the call has
\* failed with that failure.
C22_OnProgressFailureFails ==
    \A s \in Locks \cup Deposits :
        ProgressThrew(s) /\ sess[s].firedAt = "none" /\ ~sess[s].ended =>
            sess[s].outcome = Rejection("progressError", "-", 0)


(***************************************************************************)
(* Properties of the error classifier.                                     *)
(***************************************************************************)
Extracted == cls.pc = "extracted"
Classified == cls.pc = "classified"

\* C23: extractErrorMessage is total and never returns an empty string: for
\* every input it returns, without raising, a string of length >= 1.
C23_TotalAndNonEmpty ==
    Extracted =>
        /\ ~cls.result.raised
        /\ cls.result.type = "string"
        /\ Len(cls.result.value) >= 1

\* the objects the extraction goes through from the object at address a:
\* those of its error and cause fields, theirs, and so on
Next1(heap, from) ==
    {to \in DOMAIN heap : \E f \in {"error", "cause"} :
        f \in DOMAIN heap[from].props /\ heap[from].props[f] = Ref(to)}
Reach(heap, from) ==
    Next1(heap, from) \cup UNION {Next1(heap, via) : via \in Next1(heap, from)}
Cyclic(heap, error) ==
    error.type = "object" /\ \E a \in DOMAIN heap : a \in Reach(heap, a)

\* C24: for a failure whose cause chain or nested error field leads back to
\* itself, extractErrorMessage returns a string.
C24_ReturnsOnCycles ==
    Extracted /\ Cyclic(cls.heap, cls.error) =>
        ~cls.result.raised /\ cls.result.type = "string"
\* the message isRetryableError looks at, in lower case
Message == ToLowerCase(extractErrorMessage(cls.heap, cls.error).value)
TheError == cls.heap[cls.error.num]
IsObject == cls.error.type = "object"

\* the conditions (a)-(f) under which a failure is retryable
TransientText ==
    \E i \in 1..Len(PLATFORM_TRANSIENT_ERRORS) :
        Includes(Message, PLATFORM_TRANSIENT_ERRORS[i])
MarkedRetriable ==
    IsObject /\ In("retriable", TheError) /\ Get(TheError, "retriable") = Bool(TRUE)
RetryableCode ==
    IsObject /\ In("code", TheError) /\
        \/ Get(TheError, "code") \in {Num(14), Num(4), Num(8), Num(10)}
        \/ Get(TheError, "code") = Num(-1) /\ Includes(Message, "not available")
NetworkClass ==
    /\ InstanceOf(cls.heap, cls.error, "TypeError")
    /\ IncludesAny(Message, {"network", "fetch", "load failed"})
ConnectivityKeyword ==
    IncludesAny(Message, {"disconnected", "timeout", "econnreset",
                          "econnrefused", "enotfound"})
HttpStatusToken ==
    IncludesAny(Message, {"429", "500", "502", "503", "504",
                          "internal server error", "bad gateway",
                          "service unavailable", "gateway timeout"})
TaggedAbort ==
    /\ InstanceOf(cls.heap, cls.error, "DOMException")
    /\ Get(TheError, "name") = Str("AbortError")
SpecRetryable ==
    \/ TransientText \/ MarkedRetriable \/ RetryableCode
    \/ NetworkClass \/ ConnectivityKeyword \/ HttpStatusToken \/ TaggedAbort

\* C25: isRetryableError returns true if and only if one of the conditions
\* (a)-(f) holds for the failure: a transient text, retriable: true, a
\* retryable code, a network-class error or a connectivity keyword, an HTTP
\* status token, a tagged abort.
C25_TrueIffCondition ==
    Classified /\ ~cls.result.raised =>
        (cls.result = True <=> SpecRetryable)

\* C26: isRetryableError returns true whenever the extracted message holds
\* an HTTP status token or phrase or a connectivity keyword, whether the
\* failure is a bare string, a plain object with a message or an Error.
C26_TokenOrKeywordRetryable ==
    Classified /\ ~cls.result.raised /\ (HttpStatusToken \/ ConnectivityKeyword) =>
        cls.result = True
\* what the sources of a message yield, in the order of preference: the
\* string itself, message, msg, the nested error, the cause, the name with
\* code or kind, the native description, the dump; Nothing where a source
\* is absent, and for an object already visited
Nothing == "<nothing>"
FirstSpecific(yields) ==
    LET specific == {i \in 1..Len(yields) : yields[i] \notin {Nothing, UnknownError}}
    IN  IF specific = {} THEN UnknownError
        ELSE yields[CHOOSE i \in specific : \A j \in specific : i <= j]
RECURSIVE Preferred(_, _, _)
Preferred(heap, error, visited) ==
    IF error.type \in {"null", "undefined"} THEN UnknownError
    ELSE IF error.type = "string" THEN error.str
    ELSE IF error.type # "object" THEN String(heap, error, {}).value
    ELSE IF error.num \in visited THEN UnknownError
    ELSE
        LET o == heap[error.num]
            seen == visited \cup {error.num}
            text(f) == IF In(f, o) /\ Get(o, f).type = "string" /\ Get(o, f).str # ""
                       THEN Get(o, f).str ELSE Nothing
            nested == IF ~In("error", o) THEN Nothing
                      ELSE IF Get(o, "error").type = "string" THEN Get(o, "error").str
                      ELSE IF Get(o, "error").type = "object"
                      THEN Preferred(heap, Get(o, "error"), seen)
                      ELSE Nothing
            cause == IF In("cause", o) /\ Truthy(Get(o, "cause"))
                     THEN Preferred(heap, Get(o, "cause"), seen) ELSE Nothing
            name == IF ~(In("name", o) /\ Get(o, "name").type = "string") THEN Nothing
                    ELSE IF In("code", o)
                    THEN Get(o, "name").str \o ": code " \o String(heap, Get(o, "code"), {}).value
                    ELSE IF In("kind", o)
                    THEN Get(o, "name").str \o ": kind " \o String(heap, Get(o, "kind"), {}).value
                    ELSE Get(o, "name").str
            native == IF ~InstanceOf(heap, error, "Error") THEN Nothing
                      ELSE IF Truthy(Get(o, "message")) THEN Get(o, "message").str
                      ELSE String(heap, error, {}).value
            json == JSONStringify(heap, error, {})
            dump == IF json.raised \/ json.value = "{}" THEN Nothing
                    ELSE IF Len(json.value) > 200
                    THEN SubSeq(json.value, 1, 200) \o "..."
                    ELSE json.value
        IN  FirstSpecific(<<text("message"), text("msg"), nested, cause,
                            name, native, dump>>)

\* C31: extractErrorMessage returns what the first source in the order of
\* preference yields that is more specific than the sentinel, and the
\* sentinel when no source yields such a text.
C31_PreferenceOrder ==
    Extracted =>
        /\ ~cls.result.raised
        /\ cls.result.value = Preferred(cls.heap, cls.error, {})

(***************************************************************************)
(* Properties of the proof-of-work solver.                                 *)
(***************************************************************************)
\* bit k of a hash in hex, bit 0 being the most significant of the first byte
Bit(hashHex, k) ==
    (DigitValue(SubSeq(hashHex, k \div 4 + 1, k \div 4 + 1)) \div Pow2(3 - (k % 4))) % 2
\* the number of leading zero bits, counted bit by bit
LeadingZeroBits(hashHex) ==
    LET width == 4 * Len(hashHex)
    IN  CHOOSE n \in 0..width :
            /\ \A k \in 0..(n - 1) : Bit(hashHex, k) = 0
            /\ n = width \/ Bit(hashHex, n) = 1
\* hash(challenge ++ ":" ++ decimal nonce)
HashOf(nonce) == pow.sha256[pow.challenge \o ":" \o ToString(nonce)]
Valid(nonce) == LeadingZeroBits(HashOf(nonce)) >= pow.difficulty

\* C27: a solution solveChallenge returns carries the challenge string it
\* was given and a nonce whose hash has at least `difficulty` leading zero
\* bits.
C27_ReturnedSolutionValid ==
    /\ pow.pc = "returned" =>
           /\ pow.result.tag = "solution"
           /\ pow.result.challenge = pow.challenge
           /\ Valid(pow.result.nonce)
    /\ pow.result.tag = "solution" => pow.pc = "returned"
C27_Witness ==
    /\ pow.pc = "returned" /\ pow.result.nonce >= 1
    /\ pow.difficulty = 13 /\ pow.challenge = "c2"
    /\ LeadingZeroBits(HashOf(pow.result.nonce)) = 13
Terminated == pow.pc \in {"returned", "threw"}
NoneValid == \A n \in 0..(MaxIterations - 1) : ~Valid(n)

\* C28: solveChallenge always terminates; it examines at most the maximum
\* number of candidates, the nonces below the limit, and when none of them
\* meets the target it fails with the iteration-limit error instead of
\* returning a solution or searching on.
C28_BoundedSearch ==
    /\ Len(pow.examined) <= MaxIterations
    /\ \A i \in 1..Len(pow.examined) : pow.examined[i] \in 0..(MaxIterations - 1)
    /\ pow.pc = "threw" =>
           /\ pow.result = IterationLimit
           /\ Len(pow.examined) = MaxIterations
           /\ NoneValid
    /\ Terminated /\ NoneValid => pow.pc = "threw"
C28_Terminates == []C28_BoundedSearch /\ <>Terminated
C28_Witness ==
    /\ pow.pc = "threw" /\ pow.result = IterationLimit
    /\ Len(pow.examined) = MaxIterations /\ pow.yields >= 1
    /\ pow.difficulty = 8 * HashBytes

\* C29: solveChallenge examines the nonces 0, 1, 2, ... in this order and
\* returns the smallest nonce whose hash meets the target: nonce 0 after a
\* single candidate when the difficulty is 0, and for difficulty 8 a nonce
\* whose hash starts with the byte 00 while no smaller nonce's hash does.
C29_SmallestNonceInOrder ==
    /\ \A i \in 1..Len(pow.examined) : pow.examined[i] = i - 1
    /\ pow.pc = "returned" =>
           LET nonce == pow.result.nonce
           IN  /\ Len(pow.examined) = nonce + 1
               /\ \A n \in 0..(nonce - 1) : ~Valid(n)
               /\ pow.difficulty = 0 => nonce = 0 /\ pow.examined = <<0>>
               /\ pow.difficulty = 8 =>
                      /\ SubSeq(HashOf(nonce), 1, 2) = "00"
                      /\ \A n \in 0..(nonce - 1) : SubSeq(HashOf(n), 1, 2) # "00"
C29_Witness ==
    /\ pow.pc = "returned" /\ pow.difficulty = 8
    /\ pow.result.nonce = MaxIterations - 1
    /\ SubSeq(HashOf(pow.result.nonce), 1, 2) = "00"
    /\ Valid(MaxIterations)

\* C30: meetsTarget(hash, difficulty) is true exactly when the hash has at
\* least `difficulty` leading zero bits, counted bit by bit, for every hash
\* and every difficulty from 0 to the width of the hash.
C30_MeetsTargetCountsBits ==
    pow.pc = "answered" =>
        (pow.meets <=> LeadingZeroBits(pow.hashHex) >= pow.difficulty)
C30_Witness ==
    /\ pow.pc = "answered" /\ pow.meets
    /\ pow.difficulty % 8 = 5 /\ pow.difficulty > 8
    /\ LeadingZeroBits(pow.hashHex) = pow.difficulty
(***************************************************************************)
(* Properties of the policy wrappers.                                      *)
(***************************************************************************)
\* C32: the wrapper runs withRetry under a policy in which a field the
\* call's overrides supply has the override's value and a field they do not
\* supply has the value of the base policy; the base policy is not modified.
C32_OverridesWinFieldwise ==
    wrap.pc = "called" =>
        /\ \A f \in FieldNames :
               /\ wrap.options[f].given # "absent" => wrap.passed[f] = wrap.options[f]
               /\ wrap.options[f].given = "absent" => wrap.passed[f] = wrap.created[f]
               /\ wrap.passed[f].given = "value" => run.options[f] = wrap.passed[f].v
        /\ wrap.defaultOptions = wrap.created
C32_Witness ==
    /\ wrap.pc = "called" /\ run.pc = "fn"
    /\ wrap.created.maxAttempts = Given(1) /\ wrap.options.maxAttempts = Given(2)
    /\ wrap.created.baseDelayMs = Given(6) /\ wrap.options.baseDelayMs = NotGiven(0)
    /\ run.options.maxAttempts = 2 /\ run.options.baseDelayMs = 6
    /\ wrap.options.maxDelayMs = NotGiven(0) /\ wrap.created.maxDelayMs = NotGiven(0)
    /\ run.options.maxDelayMs = 2 * DefaultMaxDelayMs
RECURSIVE Select(_, _)
Select(log, evs) ==
    IF log = <<>> THEN <<>>
    ELSE IF Head(log).ev \in evs THEN <<Head(log)>> \o Select(Tail(log), evs)
    ELSE Select(Tail(log), evs)
\* what a run did apart from its onRetry calls: attempts, outcomes, delays
Behaviour(log) == Select(log, {"fn", "ok", "fail", "sleep", "wake"})
Retries(log) == Select(log, {"sleep"})
OnRetryCalls(log) == Select(log, {"onRetry"})
BaseHasOnRetry == wrap.baseOptions.onRetry.given = "value"
SameRetryBehaviour ==
    /\ Behaviour(run.log) = Behaviour(wrap.baseRun.log)
    /\ run.pc = wrap.baseRun.pc
    /\ run.status = wrap.baseRun.status /\ run.result = wrap.baseRun.result
SinkOncePerRetry ==
    /\ Len(wrap.sink) = Len(Retries(run.log))
    /\ \A i \in 1..Len(wrap.sink) :
          /\ wrap.sink[i].isRetrying /\ wrap.sink[i].attempt = i
          /\ wrap.sink[i].maxAttempts = run.options.maxAttempts
          /\ \E error \in Errors :
                /\ Select(run.log, {"fail"})[i].err = error
                /\ wrap.sink[i].lastError =
                      extractErrorMessage(FailureOf(error).heap,
                                          FailureOf(error).error).value

\* C33: under the policy createRetryOptionsWithCallback makes from base,
\* withRetry makes the attempts, the delays and the final result it makes
\* under base for the same outcomes, what base's own onRetry did included,
\* and updateRetryStatus receives {isRetrying: true, attempt: i+1,
\* maxAttempts, lastError: the extracted message} once per retry.
C33_CallbackPreservesBase ==
    wrap.pc = "callback" =>
        /\ SameRetryBehaviour
        /\ Len(OnRetryCalls(wrap.baseRun.log)) =
              (IF BaseHasOnRetry THEN Len(Retries(run.log)) ELSE 0)
        /\ BaseHasOnRetry =>
              \A i \in 1..Len(Retries(run.log)) :
                 \E j \in 1..Len(run.log) :
                    /\ run.log[j].ev = "baseOnRetry" /\ run.log[j].n = i
        /\ SinkOncePerRetry
(***************************************************************************)
(* Properties of calls in flight together, of solveCap and of the timers.  *)
(***************************************************************************)
\* C34: calls in flight on one BridgeDAPIClient are isolated: a step of one
\* call, its terminal transitions included, leaves the resolved flag, the
\* timer, the stream and the promise of every other call as they were, and
\* a client it disconnects is the client of no other call.
C34_SessionsIsolated ==
    [][\A s \in Sessions : \A t \in Sessions \ {s} :
        sess'[s] # sess[s] =>
            /\ sess'[t].resolved = sess[t].resolved
            /\ sess'[t].timeoutId = sess[t].timeoutId
            /\ sess'[t].timerPending = sess[t].timerPending
            /\ sess'[t].clearCalls = sess[t].clearCalls
            /\ sess'[t].stream = sess[t].stream
            /\ sess'[t].streamState = sess[t].streamState
            /\ sess'[t].cancelCalls = sess[t].cancelCalls
            /\ sess'[t].outcome = sess[t].outcome
            /\ sess'[t].settleCalls = sess[t].settleCalls
            /\ sess'[s].disconnectCalls > sess[s].disconnectCalls =>
                   sess[t].client # sess[s].client]_vars
\* a call has settled while another call on the same cached client, and a
\* waitForDeposit call, went on listening
C34_Witness ==
    \E s \in Sessions : \E t \in Sessions \ {s} :
        /\ sess[s].resolved /\ sess[s].outcome.status # "pending"
        /\ sess[s].cancelCalls = 1 /\ sess[s].clearCalls = 1
        /\ sess[t].pc = "listening" /\ ~sess[t].resolved
        /\ sess[t].timerPending /\ sess[t].streamState = "open"
        /\ sess[t].outcome.status = "pending"
        /\ sess[t].client = sess[s].client
VerifyRequests == {i \in 1..Len(cap.requests) : cap.requests[i].url = "/verify"}
\* C35: solveCap fetches the challenge, solves it, submits the solution and
\* returns the token: the verify request is sent only after solveChallenge
\* has returned a solution and carries its nonce and the challenge string
\* received; after a challenge fetch that is not OK nothing is solved or
\* submitted; if solving fails or the verify response is not OK the call
\* fails and returns no token.
C35_ChallengeSolveVerifyToken ==
    cap.pc # "none" =>
        /\ cap.pc # "idle" =>
               /\ cap.requests[1] = Request("GET", "/challenge", "")
               /\ VerifyRequests \subseteq {2}
        /\ VerifyRequests # {} =>
               /\ Len(cap.responses) >= 1 /\ cap.responses[1].ok
               /\ pow.pc = "returned"
               /\ pow.result.challenge = cap.server.challenge
               /\ Valid(pow.result.nonce)
               /\ cap.requests[2] =
                      Request("POST", "/verify",
                              StringifySolution([challenge |-> cap.server.challenge,
                                                 nonce |-> pow.result.nonce]))
        /\ (Len(cap.responses) >= 1 /\ ~cap.responses[1].ok) =>
               /\ pow = NoSearch /\ VerifyRequests = {}
               /\ cap.pc = "done" /\ cap.status = "threw"
        /\ (pow.pc = "threw" /\ cap.pc # "solving") =>
               /\ VerifyRequests = {}
               /\ cap.pc = "done" /\ cap.status = "threw"
        /\ (Len(cap.responses) = 2 /\ ~cap.responses[2].ok) =>
               /\ cap.pc = "done" /\ cap.status = "threw"
        /\ cap.status = "returned" <=>
               /\ cap.pc = "done" /\ Len(cap.responses) = 2
               /\ cap.responses[2].ok /\ cap.result = cap.responses[2].body
\* a token returned for a solution found after a yield, and a refusal of the
\* verifier, are both reachable
C35_Witness ==
    /\ cap.status = "returned" /\ cap.result = "token-1"
    /\ cap.server.challenge = "c2" /\ cap.server.difficulty = 13
    /\ pow.result.nonce = 2
    /\ cap.requests[2].body =
          "{" \o Quote \o "challenge" \o Quote \o ":" \o Quote \o "c2" \o Quote
              \o "," \o Quote \o "nonce" \o Quote \o ":2}"
Settled(s) == sess[s].outcome.status # "pending"
\* C36: once its timer is armed, a call settles, whatever the collaborators
\* do, provided the runtime runs the timer's callback: waitForInstantSendLock
\* resolves or rejects, waitForDeposit resolves.
C36_ArmedTimerSettles ==
    \A s \in Sessions :
        [](sess[s].timerPending =>
              <>(/\ Settled(s)
                 /\ IsDeposit(s) => sess[s].outcome.status = "resolved"))
\* the timer fired while subscribe was pending, or while onReady ran, or
\* after the stream had only emitted errors, and the call is settled
C36_Witness ==
    \E s \in Sessions :
        /\ sess[s].firedAt \in {"subscribing", "onReady"}
        /\ sess[s].outcome.tag \in {"timeout", "deposit"}
        /\ Settled(s) /\ sess[s].pc = sess[s].firedAt
\* C37: in waitForInstantSendLock, onReady starts only while the call is
\* unresolved: it never starts after the caller's promise has been settled.
C37_OnReadyOnlyWhileUnresolved ==
    [][\A s \in Sessions :
        sess'[s].onReadyCalls > sess[s].onReadyCalls =>
            ~sess[s].resolved /\ ~Settled(s)]_vars
C38_Consistent ==
    \A s \in Sessions :
        (IsDeposit(s) /\ sess[s].outcome.status = "resolved") =>
            LET result == sess[s].outcome
            IN  /\ ~result.timedOut <=> ~result.utxo.isNull
                /\ ~result.utxo.isNull =>
                       /\ result.utxo.satoshis >= sess[s].cfg.minAmount
                       /\ result.totalAmount = result.utxo.satoshis
                       /\ result.utxo.confirmations = 0
                /\ result.utxo.isNull => result.totalAmount = 0
\* C38: every result of waitForDeposit is consistent: timedOut is false iff
\* utxo is non-null; a non-null utxo has satoshis >= minAmount, totalAmount
\* equal to its satoshis and confirmations 0; with a null utxo totalAmount is
\* 0.  A 'data' event that does not bring an output of at least minAmount,
\* one with an output to the target hash below it included, leaves the call
\* unresolved and listening, with its stream and its timer.
C38_DepositResultConsistent ==
    /\ []C38_Consistent
    /\ [][\A s \in Sessions :
            (IsDeposit(s) /\ sess'[s].handled > sess[s].handled /\ ~sess[s].resolved) =>
                IF sess'[s].resolved
                THEN /\ ~sess'[s].outcome.utxo.isNull
                     /\ sess'[s].outcome.utxo.satoshis >= sess[s].cfg.minAmount
                ELSE /\ sess'[s].outcome = Pending
                     /\ sess'[s].pc = "listening" /\ sess'[s].handlers
                     /\ sess'[s].streamState = sess[s].streamState
                     /\ sess'[s].timerPending = sess[s].timerPending
                     /\ sess'[s].cancelCalls = 0 /\ sess'[s].clearCalls = 0]_vars
\* an output below minAmount was reported, the call kept listening and a
\* later event brought the output it resolved with
C38_Witness ==
    \E s \in Sessions :
        /\ IsDeposit(s) /\ sess[s].sawSmall /\ sess[s].handled = 2
        /\ sess[s].cfg.minAmount = 2
        /\ sess[s].outcome.status = "resolved" /\ ~sess[s].outcome.timedOut
        /\ sess[s].outcome.utxo.satoshis = 2
====
